---- MODULE Spec2Model ----
(***************************************************************************)
(* The persistent email job queue (the `emails` table and its claim and    *)
(* outcome statements) and the delivery engine's worker pool.              *)
(*                                                                         *)
(* Time is counted in ticks of the store's clock.  CURRENT_TIMESTAMP and   *)
(* datetime('now') have a resolution of one tick, so two statements that   *)
(* run without a Tick between them read the same timestamp.                *)
(***************************************************************************)
EXTENDS Integers, Sequences, FiniteSets, TLC

\* ---- bounds of the model ----
NumJobs == 2
\* goroutine slots of the worker pool
NumWorkers == 3
MaxTime == 2
\* the horizon of the clock where two retry delays must elapse
LongTime == 3
\* the largest attempts value calculateBackoff is called with
MaxAttemptArg == 70
\* the longest recipient list of a call
MaxRecipients == 3
\* the jobs and direct sends that ask the rate limiter for a permit
LimiterJobs == 3
\* the horizon of the clock of the rate limiter, in half intervals
LimiterHorizon == 4

\* ---- program constants ----
PriorityLow == 0
PriorityNormal == 1
PriorityHigh == 2
DefaultMaxAttempts == 3
\* the workerCount the server passes to Start
WorkerCount == 2
\* time.Minute / RateLimit, the time the bucket takes to gain one token, in
\* ticks of the rate limiter's clock
LimiterInterval == 2
\* Config.RetryBackoff (5 minutes) is one tick; Config.MaxBackoff (4 hours) in ticks
RetryBackoff == 1
MaxBackoff == 48

JobIds == 1..NumJobs
Workers == 1..NumWorkers
Null == -1
NoJob == 0

\* priorities a producer passes (PriorityLow, PriorityNormal, PriorityHigh)
Priorities == {0, PriorityNormal, PriorityHigh}
\* MaxAttempts a producer passes (0 = left unset)
MaxAttemptsIn == {0, 1}
\* a MaxAttempts above the default, as Queue.Enqueue keeps it
ManyAttempts == 4
\* scheduledAt a producer passes (Null = Enqueue, a time = Schedule)
ScheduleIn == {Null, 1}

\* error texts: a sequence of fragments, as fmt.Errorf / strings.Join build them
permanentCodes == {"550", "551", "552", "553", "554"}
MailerErrors == {"421", "550"}
RenderErrors == {"not found"}
Recipients == {"a@x.com", "b@x.com"}
PanicText == <<"panic during delivery">>
CanceledText == <<"context canceled">>

VARIABLES
    now,        \* the clock
    emails,     \* the emails table: job id -> row
    running,    \* Engine.running
    cancelled,  \* Engine.ctx is done
    pc,         \* where each worker goroutine stands
    row,        \* the row each worker's Receive scanned (its *model.Emails)
    stale,      \* a commit happened after the worker's transaction took its snapshot
    txNow,      \* datetime('now') as the worker's SELECT evaluated it
    result,     \* what rate limiter, renderer and mailer returned to the worker
    claims,     \* history: claims of each job since it last became pending or retry
    stop,       \* where the caller of Stop stands
    firstWorkers, \* history: the workerCount of the first Start that spawned
    call,       \* a call of a function of the engine: its arguments and what it returned
    rl,         \* Engine.rateLimiter, its callers, and the permits and sends so far
    events,     \* Engine.events: whether a recorder exists, and the records handed to it
    idle,       \* the idle backoff of each worker's loop and where the loop stands
    orphans,    \* history: the jobs that were processing when the process crashed
    delivered,  \* history: what the Mailer returned for each recipient, attempt by attempt
    config,     \* Engine.config
    shutdown,   \* the server's store and event buffer, and its shutdown as far as it has run
    renderer    \* the Renderer: options, templates, cache; history: the pairs rendered

vars == <<now, emails, running, cancelled, pc, row, stale, txNow, result, claims,
          stop, firstWorkers, call, rl, events, idle, orphans, delivered, config, shutdown, renderer>>
\* what NewEngine sets and nothing changes afterwards, and what only the
\* shutdown of the server and the calls of the Renderer change
further == <<config, shutdown, renderer>>
\* the variables the steps of one function call and of the rate limiter leave alone
others == <<events, idle, orphans, delivered, further>>
\* the variables the queue and the worker pool leave alone
aside == <<call, rl, others>>
\* the variables only Start, Stop and StopReturn change
life == <<stop, firstWorkers>>

Absent == [status |-> "absent", priority |-> 0, attempts |-> 0, maxAttempts |-> 0,
           scheduledAt |-> Null, createdAt |-> 0]
NoRow == [id |-> NoJob, status |-> "", attempts |-> 0, maxAttempts |-> 0]
NoResult == [kind |-> "none", err |-> <<>>]
NoCall == [fn |-> "none"]

\* who calls rateLimiter.Wait: the workers of the server, and 0 for a caller
\* of SendNow
LimiterCallers == 0..WorkerCount

\* rate.NewLimiter(rate.Every(time.Minute / RateLimit), 1): a full bucket
\* of one token; tokens are counted in 1/LimiterInterval of a token
NewLimiter ==
    [last |-> 0, tokens |-> LimiterInterval,
     phase |-> [c \in LimiterCallers |-> "idle"],
     act |-> [c \in LimiterCallers |-> 0],
     permits |-> <<>>, sends |-> <<>>, direct |-> 0]

\* the workers of the server, each with the local variables of its loop
IdleWorkers == 1..WorkerCount

\* worker: backoff := 100 * time.Millisecond and maxBackoff = 5 * time.Second,
\* in milliseconds
MinIdle == 100
MaxIdle == 5000

\* no goroutine runs the loop yet
NewIdle == [w \in IdleWorkers |-> [phase |-> "none", backoff |-> 0, got |-> "", slept |-> 0]]

\* Engine.events is nil: NewEventRecorder failed and its error was dropped
NoRecorder == [set |-> FALSE, log |-> <<>>]

\* NewEventRecorder returned a recorder; nothing was handed to it yet
NewEventRecorder == [set |-> TRUE, log |-> <<>>]

Min(a, b) == IF a < b THEN a ELSE b

RECURSIVE Pow2(_)
Pow2(n) == IF n <= 0 THEN 1 ELSE 2 * Pow2(n - 1)

\* the store and the engine after construction
InitEngine ==
    /\ now = 0
    /\ emails = [j \in JobIds |-> Absent]
    /\ running = FALSE
    /\ cancelled = FALSE
    /\ pc = [w \in Workers |-> "idle"]
    /\ row = [w \in Workers |-> NoRow]
    /\ stale = [w \in Workers |-> FALSE]
    /\ txNow = [w \in Workers |-> 0]
    /\ result = [w \in Workers |-> NoResult]
    /\ claims = [j \in JobIds |-> 0]
    /\ stop = "none"
    /\ firstWorkers = 0

\* the idle loops, the crash history and the send history at the start
\* the server while it serves: the database is open, no event is buffered
Serving == [began |-> FALSE, db |-> "open", todo |-> <<>>, ordered |-> FALSE,
            buffered |-> 0, written |-> 0, lost |-> 0]

InitHistory ==
    /\ shutdown = Serving
    /\ idle = NewIdle
    /\ orphans = {}
    /\ delivered = <<>>

\* DefaultConfig(), which is also what the server's configuration gives
DefaultConfig == [MaxRetries |-> 3]

\* a template name that is not loaded
NoTemplate == ""

\* the template names the calls use
TemplateNames == {"welcome", "reset"}

\* r.cache = make(map[string]string)
EmptyCache == [key \in {} |-> <<>>]

\* NewRenderer(WithCache(enabled)): no template, an empty cache
NewRenderer(enabled) ==
    [enableCache |-> enabled, templates |-> [n \in TemplateNames |-> NoTemplate],
     cache |-> EmptyCache, rendered |-> {}]

InitRest ==
    /\ InitHistory
    /\ config = DefaultConfig
    /\ renderer = NewRenderer(FALSE)

\* the engine of a server whose event recorder could not be created
Init ==
    /\ InitEngine
    /\ call = NoCall
    /\ rl = NewLimiter
    /\ events = NoRecorder
    /\ InitRest

\* A statement on a context that is done fails before it reaches the store.
ExecOK == ~cancelled

\* A commit makes every open read snapshot stale.
Committed(w) == [v \in Workers |-> v # w /\ pc[v] = "tx"]

\* the clock advances by one tick, up to the horizon
TickTo(horizon) ==
    /\ now < horizon
    /\ now' = now + 1
    /\ UNCHANGED <<emails, running, cancelled, pc, row, stale, txNow, result, claims, life, aside>>

Tick == TickTo(MaxTime)

\* ---------------------------------------------------------------------
\* The emails table: statements of Queue / customEmailsModel
\* ---------------------------------------------------------------------

\* insert into emails (...) values (..., 'pending', ?, 0, ?, ?, CURRENT_TIMESTAMP, ...)
InsertRow(priority, maxAttempts, scheduledAt) ==
    [status |-> "pending", priority |-> priority, attempts |-> 0,
     maxAttempts |-> maxAttempts, scheduledAt |-> scheduledAt,
     createdAt |-> now]

\* Eligible without the status filter
EligibleAnyStatus(j, t) ==
    /\ emails[j].status # "absent"
    /\ (emails[j].scheduledAt = Null \/ emails[j].scheduledAt <= t)

\* Eligible without the scheduled_at filter
EligibleNoGate(j, t) == emails[j].status \in {"pending", "retry"}

\* Eligible with a claim of the rows that are processing
EligibleOrProcessing(j, t) ==
    /\ emails[j].status \in {"pending", "retry", "processing"}
    /\ (emails[j].scheduledAt = Null \/ emails[j].scheduledAt <= t)

\* where status in ('pending','retry') and (scheduled_at is null or scheduled_at <= datetime('now'))
Eligible(j, t) ==
    /\ emails[j].status \in {"pending", "retry"}
    /\ (emails[j].scheduledAt = Null \/ emails[j].scheduledAt <= t)

\* SortsBefore with the priority ascending
SortsBeforeAscending(j, k) ==
    \/ emails[j].priority < emails[k].priority
    \/ /\ emails[j].priority = emails[k].priority
       /\ emails[j].createdAt < emails[k].createdAt

\* order by priority desc, created_at asc: j sorts strictly before k
SortsBefore(j, k) ==
    \/ emails[j].priority > emails[k].priority
    \/ /\ emails[j].priority = emails[k].priority
       /\ emails[j].createdAt < emails[k].createdAt

\* ... limit 1: the rows the SELECT of Receive may return.  Rows that compare
\* equal under the ORDER BY come in an order the store does not define.
SelectNext(t) ==
    {j \in JobIds : Eligible(j, t) /\ \A k \in JobIds : Eligible(k, t) => ~SortsBefore(k, j)}

\* SetProcessing that leaves the row as it is
SetProcessingNoUpdate(id) == emails

\* update emails set status = 'processing' where id = ?
SetProcessing(id) == [emails EXCEPT ![id].status = "processing"]

\* MarkSent that leaves the row to be claimed again
MarkSentStillPending(id) == [emails EXCEPT ![id].status = "pending"]

\* update emails set status = 'sent', sent_at = ..., message_id = ? where id = ?
MarkSent(id) == [emails EXCEPT ![id].status = "sent"]

\* update emails set status = 'retry', error = ?, attempts = attempts + 1, scheduled_at = ? where id = ?
MarkRetry(id, retryAt, errMsg) ==
    [emails EXCEPT ![id].status = "retry", ![id].attempts = @ + 1,
                   ![id].scheduledAt = retryAt]

\* MarkFailed that leaves the status as it is
MarkFailedKeepsStatus(id, errMsg) == [emails EXCEPT ![id].attempts = @ + 1]

\* update emails set status = 'failed', error = ?, attempts = attempts + 1 where id = ?
MarkFailed(id, errMsg) ==
    [emails EXCEPT ![id].status = "failed", ![id].attempts = @ + 1]

\* ---------------------------------------------------------------------
\* Producer: Queue.Enqueue / Queue.Schedule
\* ---------------------------------------------------------------------
Enqueue(priority, maxAttempts, scheduledAt) ==
    /\ \E j \in JobIds :
        /\ emails[j].status = "absent"
        /\ \A k \in JobIds : k < j => emails[k].status # "absent"
        /\ emails' = [emails EXCEPT ![j] = InsertRow(
                IF priority = 0 THEN PriorityNormal ELSE priority,
                IF maxAttempts = 0 THEN DefaultMaxAttempts ELSE maxAttempts,
                scheduledAt)]
    /\ stale' = [v \in Workers |-> pc[v] = "tx"]
    /\ UNCHANGED <<now, running, cancelled, pc, row, txNow, result, claims, life, aside>>

\* ---------------------------------------------------------------------
\* Engine
\* ---------------------------------------------------------------------
calculateBackoff(attempts) == Min(RetryBackoff * Pow2(attempts - 1), MaxBackoff)

\* the fragments of an error text that are themselves made of parts: an
\* address with digits in its local part
Within == ("u550@x.com" :> {"u", "550", "@x.com"})

\* strings.Contains(msg, code): code is a fragment of msg or a part of one
Contains(msg, code) ==
    \E i \in 1..Len(msg) :
        \/ msg[i] = code
        \/ msg[i] \in DOMAIN Within /\ code \in Within[msg[i]]

isPermanentFailure(msg) == \E code \in permanentCodes : Contains(msg, code)

\* the goroutine slots no live worker holds
FreeSlots == {w \in Workers : pc[w] \in {"idle", "exited"}}

\* the slots the next n goroutines of the group take
Spawned(n) == {w \in FreeSlots : Cardinality({v \in FreeSlots : v < w}) < n}

\* the workers that have been spawned and have not returned
LiveWorkers == Workers \ FreeSlots

\* Start without the guard on the running flag
StartUnguarded(n) ==
    /\ Cardinality(FreeSlots) >= n
    /\ running' = TRUE
    /\ pc' = [w \in Workers |-> IF w \in Spawned(n) THEN "loop" ELSE pc[w]]
    /\ firstWorkers' = IF firstWorkers = 0 THEN n ELSE firstWorkers
    /\ UNCHANGED <<now, emails, cancelled, row, stale, txNow, result, claims, stop, aside>>

\* Start(workers): CAS(running, false, true), then one goroutine per worker
Start(n) ==
    /\ running = FALSE
    /\ Cardinality(FreeSlots) >= n
    /\ running' = TRUE
    /\ pc' = [w \in Workers |-> IF w \in Spawned(n) THEN "loop" ELSE pc[w]]
    /\ firstWorkers' = IF firstWorkers = 0 THEN n ELSE firstWorkers
    /\ UNCHANGED <<now, emails, cancelled, row, stale, txNow, result, claims, stop, aside>>

\* the caller of Stop is in group.Wait()
StopWaiting == stop \in {"waiting", "waiting again"}

\* a call of Stop has returned
StopReturned == stop \in {"returned", "waiting again"}

\* Stop: CAS(running, true, false), then cancel(); the caller then waits
\* in group.Wait() (one caller of Stop at a time)
Stop ==
    /\ running = TRUE
    /\ ~StopWaiting
    /\ running' = FALSE
    /\ cancelled' = TRUE
    /\ stop' = IF stop = "none" THEN "waiting" ELSE "waiting again"
    /\ UNCHANGED <<now, emails, pc, row, stale, txNow, result, claims, firstWorkers, aside>>

\* StopReturn that does not wait for the group
StopReturnNoWait ==
    /\ StopWaiting
    /\ stop' = "returned"
    /\ UNCHANGED <<now, emails, running, cancelled, pc, row, stale, txNow, result,
                   claims, firstWorkers, aside>>

\* Stop: group.Wait() returns once every goroutine of the group has returned
StopReturn ==
    /\ StopWaiting
    /\ LiveWorkers = {}
    /\ stop' = "returned"
    /\ UNCHANGED <<now, emails, running, cancelled, pc, row, stale, txNow, result,
                   claims, firstWorkers, aside>>

\* worker: case <-e.ctx.Done(): return
WorkerExit(w) ==
    /\ pc[w] = "loop"
    /\ cancelled
    /\ pc' = [pc EXCEPT ![w] = "exited"]
    /\ UNCHANGED <<now, emails, running, cancelled, row, stale, txNow, result, claims, life, aside>>

\* Receive, first statement: the SELECT inside the transaction finds no row
\* (sqlx.ErrNotFound, Receive returns nil, nil and the worker sleeps)
ReceiveNone(w) ==
    /\ pc[w] = "loop"
    /\ ~cancelled
    /\ SelectNext(now) = {}
    /\ UNCHANGED vars

\* ReceiveSelect by a worker that does not look at e.ctx.Done() first
ReceiveSelectNoDone(w) ==
    /\ pc[w] = "loop"
    /\ \E j \in SelectNext(now) :
        row' = [row EXCEPT ![w] = [id |-> j, status |-> emails[j].status,
                                   attempts |-> emails[j].attempts,
                                   maxAttempts |-> emails[j].maxAttempts]]
    /\ pc' = [pc EXCEPT ![w] = "tx"]
    /\ stale' = [stale EXCEPT ![w] = FALSE]
    /\ txNow' = [txNow EXCEPT ![w] = now]
    /\ UNCHANGED <<now, emails, running, cancelled, result, claims, life, aside>>

\* Receive, first statement: the SELECT reads the next eligible row
ReceiveSelect(w) ==
    /\ pc[w] = "loop"
    /\ ~cancelled
    /\ \E j \in SelectNext(now) :
        row' = [row EXCEPT ![w] = [id |-> j, status |-> emails[j].status,
                                   attempts |-> emails[j].attempts,
                                   maxAttempts |-> emails[j].maxAttempts]]
    /\ pc' = [pc EXCEPT ![w] = "tx"]
    /\ stale' = [stale EXCEPT ![w] = FALSE]
    /\ txNow' = [txNow EXCEPT ![w] = now]
    /\ UNCHANGED <<now, emails, running, cancelled, result, claims, life, aside>>

\* CanCommit for a SELECT and an UPDATE that are not one transaction
CanCommitNoSnapshot(w) == ExecOK

\* the transaction of Receive may write and commit only on the snapshot it read
CanCommit(w) == ExecOK /\ ~stale[w]

\* Receive, second statement and commit: the UPDATE to 'processing'
ReceiveCommit(w) ==
    /\ pc[w] = "tx"
    /\ CanCommit(w)
    /\ emails' = SetProcessing(row[w].id)
    /\ claims' = [claims EXCEPT ![row[w].id] = @ + 1]
    /\ pc' = [pc EXCEPT ![w] = "process"]
    /\ stale' = Committed(w)
    /\ txNow' = [txNow EXCEPT ![w] = 0]
    /\ UNCHANGED <<now, running, cancelled, row, result, life, aside>>

\* Receive fails (the snapshot is stale, or the context is done): rollback,
\* the worker sleeps and loops
ReceiveError(w) ==
    /\ pc[w] = "tx"
    /\ ~CanCommit(w)
    /\ pc' = [pc EXCEPT ![w] = "loop"]
    /\ row' = [row EXCEPT ![w] = NoRow]
    /\ stale' = [stale EXCEPT ![w] = FALSE]
    /\ txNow' = [txNow EXCEPT ![w] = 0]
    /\ UNCHANGED <<now, emails, running, cancelled, result, claims, life, aside>>

\* strings.Join of error texts
RECURSIVE Join(_, _)
Join(msgs, sep) ==
    IF msgs = <<>> THEN <<>>
    ELSE IF Len(msgs) = 1 THEN msgs[1]
    ELSE msgs[1] \o <<sep>> \o Join(Tail(msgs), sep)

\* SendAll that gives up at the first recipient the Mailer fails for
RECURSIVE SendAllAbort(_, _, _)
SendAllAbort(recipients, outcome, i) ==
    IF i > Len(recipients) THEN [calls |-> <<>>, sendErrors |-> <<>>]
    ELSE IF outcome[i] # "ok"
    THEN [calls |-> <<recipients[i]>>,
          sendErrors |-> << <<"send to", recipients[i], outcome[i]>> >>]
    ELSE LET rest == SendAllAbort(recipients, outcome, i + 1)
         IN  [calls |-> <<recipients[i]>> \o rest.calls, sendErrors |-> rest.sendErrors]

\* processJob, the loop over the recipients from the i-th on: the calls of
\* mail.Send it makes and the sendErrors it collects (outcome[i] is what
\* the Mailer returns for the i-th recipient)
RECURSIVE SendAll(_, _, _)
SendAll(recipients, outcome, i) ==
    IF i > Len(recipients) THEN [calls |-> <<>>, sendErrors |-> <<>>]
    ELSE LET rest == SendAll(recipients, outcome, i + 1)
         IN  [calls |-> <<recipients[i]>> \o rest.calls,
              sendErrors |->
                  (IF outcome[i] = "ok" THEN <<>>
                   ELSE << <<"send to", recipients[i], outcome[i]>> >>) \o rest.sendErrors]

\* processAttempt that reports the failure of the last recipient only
processAttemptLastError(render, recipients, outcome) ==
    IF render # "ok" THEN [calls |-> <<>>, err |-> <<"render template", render>>]
    ELSE [calls |-> recipients,
          err |-> IF recipients = <<>> \/ outcome[Len(recipients)] = "ok" THEN <<>>
                  ELSE <<"send to", recipients[Len(recipients)], outcome[Len(recipients)]>>]

\* processJob from the render on: the Mailer calls and the error of the
\* attempt (<<>> is nil)
processAttempt(render, recipients, outcome) ==
    IF render # "ok" THEN [calls |-> <<>>, err |-> <<"render template", render>>]
    ELSE LET sent == SendAll(recipients, outcome, 1)
         IN  [calls |-> sent.calls, err |-> Join(sent.sendErrors, "; ")]

\* SendNow, the loop over the recipients from the i-th on
RECURSIVE SendUntilError(_, _, _)
SendUntilError(recipients, outcome, i) ==
    IF i > Len(recipients) THEN [calls |-> <<>>, err |-> <<>>]
    ELSE IF outcome[i] # "ok"
    THEN [calls |-> <<recipients[i]>>, err |-> <<"send to", recipients[i], outcome[i]>>]
    ELSE LET rest == SendUntilError(recipients, outcome, i + 1)
         IN  [calls |-> <<recipients[i]>> \o rest.calls, err |-> rest.err]

\* SendNow: rate limit, render, send
SendNow(wait, render, recipients, outcome) ==
    IF wait # "ok" THEN [calls |-> <<>>, err |-> <<wait>>]
    ELSE IF render # "ok" THEN [calls |-> <<>>, err |-> <<"render template", render>>]
    ELSE SendUntilError(recipients, outcome, 1)

\* what rateLimiter.Wait, RenderTemplate and mail.Send can make of one attempt
\* of a job with one recipient
AttemptResults ==
    IF cancelled
    THEN {[kind |-> "err", err |-> CanceledText]}
    ELSE {[kind |-> "ok", err |-> <<>>], [kind |-> "panic", err |-> <<>>]}
         \cup {[kind |-> "err", err |-> processAttempt(e, <<"a@x.com">>, <<"ok">>).err] :
                    e \in RenderErrors}
         \cup {[kind |-> "err", err |-> processAttempt("ok", <<"a@x.com">>, <<e>>).err] :
                    e \in MailerErrors}

\* processJob up to the outcome: rate limit, render, send to every recipient
Attempt(w) ==
    /\ pc[w] = "process"
    /\ \E r \in AttemptResults :
        /\ result' = [result EXCEPT ![w] = r]
        /\ pc' = [pc EXCEPT ![w] = IF r.kind = "panic" THEN "deferred" ELSE "outcome"]
    /\ UNCHANGED <<now, emails, running, cancelled, row, stale, txNow, claims, life, aside>>

\* handleError: whether it gives the job up (attempts is email.Attempts + 1)
GivesUp(err, attempts, maxAttempts) == isPermanentFailure(err) \/ attempts >= maxAttempts

\* handleError: the statement it issues for the claimed row and the error
handleError(w, err) ==
    LET attempts == row[w].attempts + 1
        maxAttempts == row[w].maxAttempts
    IN  IF GivesUp(err, attempts, maxAttempts)
        THEN MarkFailed(row[w].id, err)
        ELSE MarkRetry(row[w].id, now + calculateBackoff(attempts), err)

\* the eventType processJob and handleError pass to recordEvent
EventType(w) ==
    IF result[w].kind = "ok" THEN "sent"
    ELSE IF GivesUp(result[w].err, row[w].attempts + 1, row[w].maxAttempts) THEN "failed"
    ELSE "retry"

\* EventRecorder.RecordEvent: the record goes to the bulk inserter; a failed
\* Insert is logged (stored = FALSE) and nothing is returned
RecordEvent(world, emailID, eventType, stored) ==
    [world EXCEPT !.events.log =
        Append(@, [emailID |-> emailID, eventType |-> eventType, stored |-> stored])]

\* recordEvent for a recorder whose failed Insert undoes the statement before it
recordEventOrUndo(world, emailID, eventType, stored) ==
    IF ~world.events.set THEN world
    ELSE IF stored THEN RecordEvent(world, emailID, eventType, stored)
    ELSE [world EXCEPT !.emails = emails]

\* Engine.recordEvent: hands the record over if a recorder exists
recordEvent(world, emailID, eventType, stored) ==
    IF world.events.set THEN RecordEvent(world, emailID, eventType, stored) ELSE world

\* the store after the statement processJob or handleError issues for the
\* outcome of worker w's attempt
Marked(w) ==
    IF ~ExecOK THEN emails
    ELSE IF result[w].kind = "ok" THEN MarkSent(row[w].id)
    ELSE handleError(w, result[w].err)

\* processJob: MarkSent on success, handleError on failure, then recordEvent
Outcome(w) ==
    /\ pc[w] = "outcome"
    /\ \E stored \in BOOLEAN :
        LET after == recordEvent([emails |-> Marked(w), events |-> events],
                                 row[w].id, EventType(w), stored)
        IN  /\ emails' = after.emails
            /\ events' = after.events
    /\ claims' = IF ExecOK /\ Marked(w)[row[w].id].status = "retry"
                 THEN [claims EXCEPT ![row[w].id] = 0] ELSE claims
    /\ stale' = IF ExecOK THEN Committed(w) ELSE stale
    /\ pc' = [pc EXCEPT ![w] = "deferred"]
    /\ UNCHANGED <<now, running, cancelled, row, txNow, result, life, call, rl,
                   idle, orphans, delivered, further>>

\* rescue.RecoverCtx(ctx, cleanup): runs every cleanup, then recovers a panic
RecoverCtx(w) ==
    /\ pc[w] = "deferred"
    /\ emails' = IF ExecOK THEN MarkFailed(row[w].id, PanicText) ELSE emails
    /\ stale' = IF ExecOK THEN Committed(w) ELSE stale
    /\ pc' = [pc EXCEPT ![w] = "loop"]
    /\ row' = [row EXCEPT ![w] = NoRow]
    /\ result' = [result EXCEPT ![w] = NoResult]
    /\ UNCHANGED <<now, running, cancelled, txNow, claims, life, aside>>

Next ==
    \/ Tick
    \/ \E p \in Priorities, m \in MaxAttemptsIn, s \in ScheduleIn : Enqueue(p, m, s)
    \/ Start(WorkerCount)
    \/ Stop
    \/ StopReturn
    \/ \E w \in Workers : WorkerExit(w)
    \/ \E w \in Workers : ReceiveNone(w)
    \/ \E w \in Workers : ReceiveSelect(w)
    \/ \E w \in Workers : ReceiveCommit(w)
    \/ \E w \in Workers : ReceiveError(w)
    \/ \E w \in Workers : Attempt(w)
    \/ \E w \in Workers : Outcome(w)
    \/ \E w \in Workers : RecoverCtx(w)

Spec == Init /\ [][Next]_vars

\* ---------------------------------------------------------------------
\* The engine started and never stopped, every goroutine scheduled again
\* and again, every collaborator call returning, the clock advancing
\* ---------------------------------------------------------------------
NextRunning ==
    \/ Tick
    \/ \E m \in MaxAttemptsIn, s \in ScheduleIn : Enqueue(PriorityNormal, m, s)
    \/ Start(WorkerCount)
    \/ \E w \in Workers : ReceiveNone(w)
    \/ \E w \in Workers : ReceiveSelect(w)
    \/ \E w \in Workers : ReceiveCommit(w)
    \/ \E w \in Workers : ReceiveError(w)
    \/ \E w \in Workers : Attempt(w)
    \/ \E w \in Workers : Outcome(w)
    \/ \E w \in Workers : RecoverCtx(w)

\* a worker goroutine that can take a step takes it
WorkerFairness(w) ==
    /\ WF_vars(WorkerExit(w))
    /\ WF_vars(ReceiveSelect(w))
    /\ WF_vars(ReceiveCommit(w))
    /\ WF_vars(ReceiveError(w))
    /\ WF_vars(Attempt(w))
    /\ WF_vars(Outcome(w))
    /\ WF_vars(RecoverCtx(w))

SpecRunning ==
    /\ Init /\ [][NextRunning]_vars
    /\ WF_vars(Tick)
    /\ WF_vars(Start(WorkerCount))
    /\ \A w \in Workers : WorkerFairness(w)

\* ---------------------------------------------------------------------
\* The engine started and stopped while jobs that are due at once come in,
\* every goroutine scheduled again and again, every collaborator call
\* returning
\* ---------------------------------------------------------------------
NextStopping ==
    \/ \E m \in MaxAttemptsIn : Enqueue(PriorityNormal, m, Null)
    \/ Start(WorkerCount)
    \/ Stop
    \/ StopReturn
    \/ \E w \in Workers : WorkerExit(w)
    \/ \E w \in Workers : ReceiveNone(w)
    \/ \E w \in Workers : ReceiveSelect(w)
    \/ \E w \in Workers : ReceiveCommit(w)
    \/ \E w \in Workers : ReceiveError(w)
    \/ \E w \in Workers : Attempt(w)
    \/ \E w \in Workers : Outcome(w)
    \/ \E w \in Workers : RecoverCtx(w)

SpecStopping ==
    /\ Init /\ [][NextStopping]_vars
    /\ WF_vars(StopReturn)
    /\ \A w \in Workers : WorkerFairness(w)

\* ---------------------------------------------------------------------
\* One job with MaxAttempts above the default, a pool that fills every
\* goroutine slot, and time for two retry delays
\* ---------------------------------------------------------------------
EnqueueOne ==
    /\ emails[1].status = "absent"
    /\ Enqueue(PriorityNormal, ManyAttempts, Null)

NextAttempts ==
    \/ TickTo(LongTime)
    \/ EnqueueOne
    \/ Start(NumWorkers)
    \/ \E w \in Workers : ReceiveNone(w)
    \/ \E w \in Workers : ReceiveSelect(w)
    \/ \E w \in Workers : ReceiveCommit(w)
    \/ \E w \in Workers : ReceiveError(w)
    \/ \E w \in Workers : Attempt(w)
    \/ \E w \in Workers : Outcome(w)
    \/ \E w \in Workers : RecoverCtx(w)

SpecAttempts == Init /\ [][NextAttempts]_vars

\* ---------------------------------------------------------------------
\* The engine of a server with or without an event recorder, jobs that are
\* due at once, the engine not stopped
\* ---------------------------------------------------------------------
InitEvents ==
    /\ InitEngine
    /\ call = NoCall
    /\ rl = NewLimiter
    /\ events \in {NoRecorder, NewEventRecorder}
    /\ InitRest

NextEvents ==
    \/ Tick
    \/ \E m \in MaxAttemptsIn : Enqueue(PriorityNormal, m, Null)
    \/ Start(WorkerCount)
    \/ \E w \in Workers : ReceiveNone(w)
    \/ \E w \in Workers : ReceiveSelect(w)
    \/ \E w \in Workers : ReceiveCommit(w)
    \/ \E w \in Workers : ReceiveError(w)
    \/ \E w \in Workers : Attempt(w)
    \/ \E w \in Workers : Outcome(w)
    \/ \E w \in Workers : RecoverCtx(w)

SpecEvents == InitEvents /\ [][NextEvents]_vars

TypeOK ==
    /\ now \in 0..MaxTime
    /\ running \in BOOLEAN
    /\ cancelled \in BOOLEAN
    /\ stop \in {"none", "waiting", "returned", "waiting again"}
    /\ firstWorkers \in 0..NumWorkers
    /\ \A w \in Workers : pc[w] \in {"idle", "loop", "tx", "process", "outcome", "deferred", "exited"}

\* ---------------------------------------------------------------------
\* time.Duration: a 64-bit two's complement count of nanoseconds, written
\* as its 8 bytes, least significant first
\* ---------------------------------------------------------------------
Bytes64 == 1..8

\* a non-negative integer below 2^31 as an int64
RECURSIVE Int64From(_, _)
Int64From(n, i) == IF i > 8 THEN <<>> ELSE <<n % 256>> \o Int64From(n \div 256, i + 1)

Int64(n) == Int64From(n, 1)

MinInt64 == [i \in Bytes64 |-> IF i = 8 THEN 128 ELSE 0]
MaxInt64 == [i \in Bytes64 |-> IF i = 8 THEN 127 ELSE 255]

\* the sum of the byte products that land on byte i of a * b
RECURSIVE Dot(_, _, _, _)
Dot(a, b, i, j) == IF j > i THEN 0 ELSE a[j] * b[i + 1 - j] + Dot(a, b, i, j + 1)

RECURSIVE MulFrom(_, _, _, _)
MulFrom(a, b, i, carry) ==
    IF i > 8 THEN <<>>
    ELSE LET sum == carry + Dot(a, b, i, 1)
         IN  <<sum % 256>> \o MulFrom(a, b, i + 1, sum \div 256)

\* a * b of two int64: the low 64 bits of the product
Mul64(a, b) == MulFrom(a, b, 1, 0)

Negative64(a) == a[8] >= 128

RECURSIVE GreaterFrom(_, _, _)
GreaterFrom(a, b, i) ==
    IF i = 0 THEN FALSE
    ELSE IF a[i] # b[i] THEN a[i] > b[i]
    ELSE GreaterFrom(a, b, i - 1)

\* a > b of two int64
Greater64(a, b) ==
    IF Negative64(a) # Negative64(b) THEN Negative64(b) ELSE GreaterFrom(a, b, 8)

\* one tick of the model's clock (5 * time.Minute) in nanoseconds
TickNs == Mul64(Int64(5 * 60), Int64(1000000000))

\* a number of ticks as a time.Duration
Duration(ticks) == Mul64(Int64(ticks), TickNs)

\* math.Pow(2, float64(k)) for 0 <= k <= 62 as an int64: bit k
PowerOfTwo64(k) == [i \in Bytes64 |-> IF i = (k \div 8) + 1 THEN Pow2(k % 8) ELSE 0]

\* time.Duration(math.Pow(2, float64(k))): exact while 2^k fits; beyond
\* that the conversion yields what the target's instruction yields, the
\* smallest int64 (amd64) or the largest (arm64)
PowToDuration(k) == IF k <= 62 THEN {PowerOfTwo64(k)} ELSE {MinInt64, MaxInt64}

\* calculateBackoff in the engine's int64 arithmetic, pow being the
\* converted power of two
calculateBackoff64(pow) ==
    LET backoff == Mul64(Duration(RetryBackoff), pow)
    IN  IF Greater64(backoff, Duration(MaxBackoff)) THEN Duration(MaxBackoff) ELSE backoff

\* min(RetryBackoff * 2^(attempts-1), MaxBackoff) in ticks, without overflow
RECURSIVE BackoffBound(_)
BackoffBound(attempts) ==
    IF attempts <= 1 THEN Min(RetryBackoff, MaxBackoff)
    ELSE Min(2 * BackoffBound(attempts - 1), MaxBackoff)

\* ---------------------------------------------------------------------
\* calculateBackoff called with every attempts value up to MaxAttemptArg
\* ---------------------------------------------------------------------
InitBackoff ==
    /\ InitEngine
    /\ call \in {[fn |-> "calculateBackoff", attempts |-> a, done |-> FALSE,
                  ret |-> Int64(0)] : a \in 1..MaxAttemptArg}
    /\ rl = NewLimiter
    /\ events = NoRecorder
    /\ InitRest

CallBackoff ==
    /\ call.fn = "calculateBackoff"
    /\ ~call.done
    /\ \E pow \in PowToDuration(call.attempts - 1) :
        call' = [call EXCEPT !.done = TRUE, !.ret = calculateBackoff64(pow)]
    /\ UNCHANGED <<now, emails, running, cancelled, pc, row, stale, txNow, result,
                   claims, life, rl, others>>

SpecBackoff == InitBackoff /\ [][CallBackoff]_vars

\* ---------------------------------------------------------------------
\* The render and send steps of processJob and SendNow called with every
\* recipient list up to MaxRecipients and every outcome of the
\* collaborators
\* ---------------------------------------------------------------------
RecipientLists == UNION {[1..n -> Recipients] : n \in 0..MaxRecipients}

MailerOutcomes == {"ok"} \cup MailerErrors

SendCalls(fn, waits) ==
    {[fn |-> fn, wait |-> w, render |-> r, recipients |-> rs, outcome |-> o,
      done |-> FALSE, calls |-> <<>>, err |-> <<>>] :
        w \in waits, r \in {"ok"} \cup RenderErrors,
        rs \in RecipientLists, o \in [1..MaxRecipients -> MailerOutcomes]}

InitSend ==
    /\ InitEngine
    /\ \/ call \in SendCalls("processJob", {"ok"})
       \/ call \in SendCalls("SendNow", {"ok", "context canceled"})
    /\ rl = NewLimiter
    /\ events = NoRecorder
    /\ InitRest

CallProcessJob ==
    /\ call.fn = "processJob"
    /\ ~call.done
    /\ LET r == processAttempt(call.render, call.recipients, call.outcome)
       IN  call' = [call EXCEPT !.done = TRUE, !.calls = r.calls, !.err = r.err]
    /\ UNCHANGED <<now, emails, running, cancelled, pc, row, stale, txNow, result,
                   claims, life, rl, others>>

CallSendNow ==
    /\ call.fn = "SendNow"
    /\ ~call.done
    /\ LET r == SendNow(call.wait, call.render, call.recipients, call.outcome)
       IN  call' = [call EXCEPT !.done = TRUE, !.calls = r.calls, !.err = r.err]
    /\ UNCHANGED <<now, emails, running, cancelled, pc, row, stale, txNow, result,
                   claims, life, rl, others>>

NextSend == CallProcessJob \/ CallSendNow

SpecSend == InitSend /\ [][NextSend]_vars

\* the recipients the Mailer failed for, in list order
FailedRecipients(recipients, outcome) ==
    SelectSeq([i \in 1..Len(recipients) |-> IF outcome[i] = "ok" THEN "" ELSE recipients[i]],
              LAMBDA r : r # "")

\* the recipients an error text names, in the order it names them
NamedRecipients(err) == SelectSeq(err, LAMBDA f : f \in Recipients)

\* ---------------------------------------------------------------------
\* The rate limiter and its callers: workers that process ready jobs with
\* one recipient each, and callers of SendNow.  The engine is not stopped.
\* ---------------------------------------------------------------------
\* Reserve without the cap of the bucket at its burst
ReserveUncapped(t) == rl.tokens + (t - rl.last) - LimiterInterval

\* the tokens left after a reservation of one token at time t: the bucket
\* gains one token per LimiterInterval up to its burst of 1; a negative
\* count is the time the caller has to wait
Reserve(t) == Min(LimiterInterval, rl.tokens + (t - rl.last)) - LimiterInterval

\* the limiter after caller c reserved a token and its time to act
Reserved(c) ==
    LET tokens == Reserve(now)
        timeToAct == now + (IF tokens < 0 THEN -tokens ELSE 0)
    IN  [rl EXCEPT !.last = now, !.tokens = tokens,
                   !.phase[c] = "waiting", !.act[c] = timeToAct,
                   !.permits = Append(@, timeToAct),
                   !.direct = IF c = 0 THEN @ + 1 ELSE @]

\* rateLimiter.Wait is called: it reserves a token and the time to act
LimiterWait(c) ==
    /\ rl.phase[c] = "idle"
    /\ Len(rl.permits) < LimiterJobs
    /\ rl' = Reserved(c)
    /\ UNCHANGED <<now, emails, running, cancelled, pc, row, stale, txNow, result,
                   claims, life, call, others>>

\* rateLimiter.Wait returns: not before the time to act
LimiterPass(c) ==
    /\ rl.phase[c] = "waiting"
    /\ now >= rl.act[c]
    /\ rl' = [rl EXCEPT !.phase[c] = "passed"]
    /\ UNCHANGED <<now, emails, running, cancelled, pc, row, stale, txNow, result,
                   claims, life, call, others>>

\* the render is done and mail.Send is called for the recipient
LimiterSend(c) ==
    /\ rl.phase[c] = "passed"
    /\ rl' = [rl EXCEPT !.phase[c] = "idle", !.sends = Append(@, now)]
    /\ UNCHANGED <<now, emails, running, cancelled, pc, row, stale, txNow, result,
                   claims, life, call, others>>

NextLimiter ==
    \/ TickTo(LimiterHorizon)
    \/ \E c \in LimiterCallers : LimiterWait(c)
    \/ \E c \in LimiterCallers : LimiterPass(c)
    \/ \E c \in LimiterCallers : LimiterSend(c)

SpecLimiter == Init /\ [][NextLimiter]_vars

\* ---------------------------------------------------------------------
\* SendNow called, one call at a time, next to a worker pool that processes
\* jobs with one attempt each.  The clock is the rate limiter's.
\* ---------------------------------------------------------------------
DeadlineText == "would exceed context deadline"

\* the calls of SendNow: wait is what the caller's context makes of
\* rateLimiter.Wait (the context is done at the call, or its deadline is
\* nearer than the time to act), permits counts the permits the call took
\* (what a step that is not reached would return is left at "ok")
DirectCalls ==
    {c \in [fn : {"SendNow"}, wait : {"ok", "context canceled", DeadlineText},
            render : {"ok"} \cup RenderErrors, recipients : {<<"a@x.com", "b@x.com">>},
            outcome : [1..2 -> MailerOutcomes], done : {FALSE}, calls : {<<>>},
            err : {<<>>}, permits : {0}] :
        /\ c.wait # "ok" => c.render = "ok"
        /\ (c.wait # "ok" \/ c.render # "ok") => \A i \in 1..2 : c.outcome[i] = "ok"}

\* SendNow is called and reaches rateLimiter.Wait: Wait fails at once, or
\* reserves a token and waits for its time to act
SendNowEnter(c) ==
    /\ call.fn = "none" \/ (call.fn = "SendNow" /\ call.done)
    /\ Len(rl.permits) < LimiterJobs
    /\ c.wait = DeadlineText => Reserve(now) < 0
    /\ IF c.wait = "ok"
       THEN /\ rl' = Reserved(0)
            /\ call' = [c EXCEPT !.permits = 1]
       ELSE /\ rl' = rl
            /\ call' = [c EXCEPT !.done = TRUE,
                                 !.err = SendNow(c.wait, c.render, c.recipients, c.outcome).err]
    /\ UNCHANGED <<now, emails, running, cancelled, pc, row, stale, txNow, result,
                   claims, life, others>>

\* SendNowReturn that hands an event to the recorder, as processJob does
SendNowReturnRecorded ==
    /\ call.fn = "SendNow" /\ ~call.done
    /\ rl.phase[0] = "waiting" /\ now >= rl.act[0]
    /\ LET r == SendNow("ok", call.render, call.recipients, call.outcome)
       IN  /\ call' = [call EXCEPT !.done = TRUE, !.calls = r.calls, !.err = r.err]
           /\ rl' = [rl EXCEPT !.phase[0] = "idle",
                               !.sends = IF r.calls = <<>> THEN @ ELSE Append(@, now)]
    /\ events' = RecordEvent([emails |-> emails, events |-> events], NoJob, "sent", TRUE).events
    /\ UNCHANGED <<now, emails, running, cancelled, pc, row, stale, txNow, result,
                   claims, life, idle, orphans, delivered, further>>

\* rateLimiter.Wait returns at the time to act; SendNow renders, sends and
\* returns
SendNowReturn ==
    /\ call.fn = "SendNow" /\ ~call.done
    /\ rl.phase[0] = "waiting" /\ now >= rl.act[0]
    /\ LET r == SendNow("ok", call.render, call.recipients, call.outcome)
       IN  /\ call' = [call EXCEPT !.done = TRUE, !.calls = r.calls, !.err = r.err]
           /\ rl' = [rl EXCEPT !.phase[0] = "idle",
                               !.sends = IF r.calls = <<>> THEN @ ELSE Append(@, now)]
    /\ UNCHANGED <<now, emails, running, cancelled, pc, row, stale, txNow, result,
                   claims, life, others>>

\* a job that is given up at its first failure, enqueued once
EnqueueFinal ==
    /\ emails[1].status = "absent"
    /\ Enqueue(PriorityNormal, 1, Null)

NextDirect ==
    \/ TickTo(LimiterInterval)
    \/ EnqueueFinal
    \/ Start(WorkerCount)
    \/ \E c \in DirectCalls : SendNowEnter(c)
    \/ SendNowReturn
    \/ \E w \in Workers : ReceiveNone(w)
    \/ \E w \in Workers : ReceiveSelect(w)
    \/ \E w \in Workers : ReceiveCommit(w)
    \/ \E w \in Workers : ReceiveError(w)
    \/ \E w \in Workers : Attempt(w)
    \/ \E w \in Workers : Outcome(w)
    \/ \E w \in Workers : RecoverCtx(w)

InitDirect ==
    /\ InitEngine
    /\ call = NoCall
    /\ rl = NewLimiter
    /\ events = NewEventRecorder
    /\ InitRest

SpecDirect == InitDirect /\ [][NextDirect]_vars

\* ---------------------------------------------------------------------
\* Queue.Enqueue and Queue.Schedule called with every job of the bounds,
\* the store failing or not, next to a worker that processes the jobs
\* ---------------------------------------------------------------------
\* job.ID = "": the caller leaves the id to Enqueue
NoId == NoJob

\* uuid.New(): an id no row of the table has
NewUUID == {j \in JobIds : emails[j].status = "absent"}

\* what can fail in Enqueue: json.Marshal of the data, the INSERT
EnqueueFaults == {"none", "marshal data", "disk I/O error"}

DuplicateText == "UNIQUE constraint failed: emails.id"

\* the calls: Enqueue(job), and Schedule(job, at) with at # Null
EnqueueCalls ==
    [fn : {"Enqueue"}, id : {NoId} \cup JobIds, priority : Priorities,
     maxAttempts : MaxAttemptsIn, scheduledAt : ScheduleIn, at : {Null},
     done : {FALSE}, ret : {NoId}, err : {<<>>}]
    \cup
    [fn : {"Schedule"}, id : {NoId} \cup JobIds, priority : {0},
     maxAttempts : MaxAttemptsIn, scheduledAt : {Null}, at : {1},
     done : {FALSE}, ret : {NoId}, err : {<<>>}]

\* Schedule: job.ScheduledAt = &at
Schedule(job, at) == [job EXCEPT !.scheduledAt = at]

\* EnqueueDefaults that leaves MaxAttempts as the caller passed it
EnqueueNoMaxAttempts(job) ==
    [job EXCEPT !.priority = IF @ = 0 THEN PriorityNormal ELSE @]

\* Enqueue: the defaults of MaxAttempts and Priority
EnqueueDefaults(job) ==
    [job EXCEPT !.maxAttempts = IF @ = 0 THEN DefaultMaxAttempts ELSE @,
                !.priority = IF @ = 0 THEN PriorityNormal ELSE @]

\* InsertEmail as an insert-or-replace
InsertOrReplace(job) ==
    [emails |-> [emails EXCEPT ![job.id] =
                    InsertRow(job.priority, job.maxAttempts, job.scheduledAt)],
     err |-> IF emails[job.id].status = "absent" THEN <<>> ELSE <<"enqueue email", DuplicateText>>]

\* insert into emails ...: id is the primary key of the table
InsertEmail(job) ==
    IF emails[job.id].status # "absent"
    THEN [emails |-> emails, err |-> <<"enqueue email", DuplicateText>>]
    ELSE [emails |-> [emails EXCEPT ![job.id] =
                        InsertRow(job.priority, job.maxAttempts, job.scheduledAt)],
          err |-> <<>>]

\* Enqueue from the id on: defaults, marshalling, the INSERT
EnqueueJob(job, fault) ==
    IF fault = "marshal data" THEN [emails |-> emails, err |-> <<fault, "unsupported type">>]
    ELSE IF fault # "none" THEN [emails |-> emails, err |-> <<"enqueue email", fault>>]
    ELSE InsertEmail(EnqueueDefaults(job))

\* a call of Enqueue or Schedule, from the call to the return (the calls
\* that fail before the INSERT is decided leave priority and MaxAttempts unset)
CallEnqueue(c, fault) ==
    /\ c.id = NoId => NewUUID # {}
    /\ fault # "none" => (c.priority = 0 /\ c.maxAttempts = 0)
    /\ LET job == IF c.fn = "Schedule" THEN Schedule(c, c.at) ELSE c
       IN  \E id \in (IF c.id = NoId THEN NewUUID ELSE {c.id}) :
            LET r == EnqueueJob([job EXCEPT !.id = id], fault)
            IN  /\ emails' = r.emails
                /\ call' = [c EXCEPT !.done = TRUE, !.err = r.err,
                                     !.ret = IF r.err = <<>> THEN id ELSE NoId]
                /\ stale' = IF r.err = <<>> THEN [v \in Workers |-> pc[v] = "tx"] ELSE stale
    /\ UNCHANGED <<now, running, cancelled, pc, row, txNow, result, claims, life, rl, others>>

NextEnqueue ==
    \/ \E c \in EnqueueCalls, fault \in EnqueueFaults : CallEnqueue(c, fault)
    \/ Start(1)
    \/ \E w \in Workers : ReceiveNone(w)
    \/ \E w \in Workers : ReceiveSelect(w)
    \/ \E w \in Workers : ReceiveCommit(w)
    \/ \E w \in Workers : ReceiveError(w)
    \/ \E w \in Workers : Attempt(w)
    \/ \E w \in Workers : Outcome(w)
    \/ \E w \in Workers : RecoverCtx(w)

SpecEnqueue == Init /\ [][NextEnqueue]_vars

\* ---------------------------------------------------------------------
\* A producer that enqueues a job with PriorityLow and, at a later time, a
\* job with PriorityNormal, and a pool that claims them
\* ---------------------------------------------------------------------
\* Enqueue(&EmailJob{ID: id, Priority: priority, ...})
EnqueueCall(id, priority) ==
    [fn |-> "Enqueue", id |-> id, priority |-> priority, maxAttempts |-> 0,
     scheduledAt |-> Null, at |-> Null, done |-> FALSE, ret |-> NoId, err |-> <<>>]

EnqueueLow ==
    /\ emails[1].status = "absent"
    /\ CallEnqueue(EnqueueCall(1, PriorityLow), "none")

EnqueueNormalLater ==
    /\ emails[1].status # "absent"
    /\ emails[2].status = "absent"
    /\ now > emails[1].createdAt
    /\ CallEnqueue(EnqueueCall(2, PriorityNormal), "none")

NextPriority ==
    \/ Tick
    \/ EnqueueLow
    \/ EnqueueNormalLater
    \/ Start(WorkerCount)
    \/ \E w \in Workers : ReceiveNone(w)
    \/ \E w \in Workers : ReceiveSelect(w)
    \/ \E w \in Workers : ReceiveCommit(w)
    \/ \E w \in Workers : ReceiveError(w)
    \/ \E w \in Workers : Attempt(w)
    \/ \E w \in Workers : Outcome(w)
    \/ \E w \in Workers : RecoverCtx(w)

SpecPriority == Init /\ [][NextPriority]_vars

\* ---------------------------------------------------------------------
\* The loop of each worker with its idle backoff.  What Receive returns is
\* left open: a job, no job, or an error.  Time is not counted: a sleep
\* ends after the duration it was called with.
\* ---------------------------------------------------------------------
\* what a call of Receive gives the worker
ClaimResults == {"job", "none", "error"}

\* NextBackoff without the min
NextBackoffNoMin(backoff) == IF backoff < MaxIdle THEN backoff * 2 ELSE backoff

\* if backoff < maxBackoff { backoff = min(backoff*2, maxBackoff) }
NextBackoff(backoff) == IF backoff < MaxIdle THEN Min(backoff * 2, MaxIdle) ELSE backoff

\* the goroutine Start spawned runs worker(): backoff := 100ms
WorkerEnter(w) ==
    /\ pc[w] = "loop"
    /\ idle[w].phase \in {"none", "returned"}
    /\ idle' = [idle EXCEPT ![w] = [phase |-> "top", backoff |-> MinIdle,
                                    got |-> "", slept |-> 0]]
    /\ UNCHANGED <<now, emails, running, cancelled, pc, row, stale, txNow, result,
                   claims, life, call, rl, events, orphans, delivered, further>>

\* select: the context is not done, the worker goes on to Receive
WorkerLoop(w) ==
    /\ idle[w].phase = "top"
    /\ ~cancelled
    /\ idle' = [idle EXCEPT ![w].phase = "claim"]
    /\ UNCHANGED <<now, emails, running, cancelled, pc, row, stale, txNow, result,
                   claims, life, call, rl, events, orphans, delivered, further>>

\* select: case <-e.ctx.Done(): return
WorkerReturn(w) ==
    /\ idle[w].phase = "top"
    /\ cancelled
    /\ idle' = [idle EXCEPT ![w].phase = "returned"]
    /\ pc' = [pc EXCEPT ![w] = "exited"]
    /\ UNCHANGED <<now, emails, running, cancelled, row, stale, txNow, result,
                   claims, life, call, rl, events, orphans, delivered, further>>

\* WorkerClaim for a worker that gives up at an error of Receive
WorkerClaimFatal(w, got) ==
    /\ idle[w].phase = "claim"
    /\ cancelled => got = "error"
    /\ idle' = [idle EXCEPT ![w].got = got,
                            ![w].phase = IF got = "job" THEN "process"
                                         ELSE IF got = "none" THEN "sleep" ELSE "returned",
                            ![w].backoff = IF got = "job" THEN MinIdle ELSE @,
                            ![w].slept = IF got = "none" THEN idle[w].backoff ELSE @]
    /\ pc' = [pc EXCEPT ![w] = IF got = "error" THEN "exited" ELSE @]
    /\ UNCHANGED <<now, emails, running, cancelled, row, stale, txNow, result,
                   claims, life, call, rl, events, orphans, delivered, further>>

\* Receive returns: with a job the backoff is reset and the job processed;
\* with no job or an error the worker sleeps for the current backoff (on a
\* context that is done Receive returns an error)
WorkerClaim(w, got) ==
    /\ idle[w].phase = "claim"
    /\ cancelled => got = "error"
    /\ idle' = [idle EXCEPT ![w].got = got,
                            ![w].phase = IF got = "job" THEN "process" ELSE "sleep",
                            ![w].backoff = IF got = "job" THEN MinIdle ELSE @,
                            ![w].slept = IF got = "job" THEN @ ELSE idle[w].backoff]
    /\ pc' = pc
    /\ UNCHANGED <<now, emails, running, cancelled, row, stale, txNow, result,
                   claims, life, call, rl, events, orphans, delivered, further>>

\* time.Sleep(backoff) returns, the backoff is doubled up to its maximum,
\* continue
WorkerWake(w) ==
    /\ idle[w].phase = "sleep"
    /\ idle' = [idle EXCEPT ![w].phase = "top", ![w].backoff = NextBackoff(@)]
    /\ UNCHANGED <<now, emails, running, cancelled, pc, row, stale, txNow, result,
                   claims, life, call, rl, events, orphans, delivered, further>>

\* processJob returns
WorkerProcessed(w) ==
    /\ idle[w].phase = "process"
    /\ idle' = [idle EXCEPT ![w].phase = "top"]
    /\ UNCHANGED <<now, emails, running, cancelled, pc, row, stale, txNow, result,
                   claims, life, call, rl, events, orphans, delivered, further>>

NextIdle ==
    \/ Start(WorkerCount)
    \/ Stop
    \/ StopReturn
    \/ \E w \in IdleWorkers : WorkerEnter(w)
    \/ \E w \in IdleWorkers : WorkerLoop(w)
    \/ \E w \in IdleWorkers : WorkerReturn(w)
    \/ \E w \in IdleWorkers, got \in ClaimResults : WorkerClaim(w, got)
    \/ \E w \in IdleWorkers : WorkerWake(w)
    \/ \E w \in IdleWorkers : WorkerProcessed(w)

SpecIdle == Init /\ [][NextIdle]_vars

\* ---------------------------------------------------------------------
\* The server crashes and is started again: the store keeps its rows, the
\* engine and its goroutines are new
\* ---------------------------------------------------------------------
\* the process dies while workers are live: open transactions are rolled
\* back, everything in memory is lost
Crash ==
    /\ LiveWorkers # {}
    /\ orphans' = orphans \cup {j \in JobIds : emails[j].status = "processing"}
    /\ running' = FALSE
    /\ cancelled' = FALSE
    /\ pc' = [w \in Workers |-> "idle"]
    /\ row' = [w \in Workers |-> NoRow]
    /\ stale' = [w \in Workers |-> FALSE]
    /\ txNow' = [w \in Workers |-> 0]
    /\ result' = [w \in Workers |-> NoResult]
    /\ stop' = "none"
    /\ firstWorkers' = 0
    /\ UNCHANGED <<now, emails, claims, call, rl, events, idle, delivered, further>>

NextCrash ==
    \/ Tick
    \/ \E m \in MaxAttemptsIn : Enqueue(PriorityNormal, m, Null)
    \/ Start(WorkerCount)
    \/ Crash
    \/ \E w \in Workers : ReceiveNone(w)
    \/ \E w \in Workers : ReceiveSelect(w)
    \/ \E w \in Workers : ReceiveCommit(w)
    \/ \E w \in Workers : ReceiveError(w)
    \/ \E w \in Workers : Attempt(w)
    \/ \E w \in Workers : Outcome(w)
    \/ \E w \in Workers : RecoverCtx(w)

SpecCrash == Init /\ [][NextCrash]_vars

\* ---------------------------------------------------------------------
\* One job with two recipients, every outcome of the Mailer for each of
\* them, a pool that is not stopped and a process that does not crash
\* ---------------------------------------------------------------------
JobRecipients == <<"a@x.com", "b@x.com">>

\* processJob up to the outcome for the job with two recipients: the render
\* fails or panics, or the Mailer is called for every recipient
AttemptRecipients(w) ==
    /\ pc[w] = "process"
    /\ \/ /\ result' = [result EXCEPT ![w] = [kind |-> "panic", err |-> <<>>]]
          /\ pc' = [pc EXCEPT ![w] = "deferred"]
          /\ delivered' = delivered
       \/ \E render \in {"ok"} \cup RenderErrors,
             outcome \in [1..Len(JobRecipients) -> MailerOutcomes] :
            LET r == processAttempt(render, JobRecipients, outcome)
            IN  /\ result' = [result EXCEPT ![w] =
                        [kind |-> IF r.err = <<>> THEN "ok" ELSE "err", err |-> r.err]]
                /\ pc' = [pc EXCEPT ![w] = "outcome"]
                /\ delivered' = IF r.calls = <<>> THEN delivered
                                 ELSE Append(delivered, outcome)
    /\ UNCHANGED <<now, emails, running, cancelled, row, stale, txNow, claims, life,
                   call, rl, events, idle, orphans, further>>

NextDuplicates ==
    \/ TickTo(LongTime)
    \/ EnqueueOne
    \/ Start(WorkerCount)
    \/ \E w \in Workers : ReceiveNone(w)
    \/ \E w \in Workers : ReceiveSelect(w)
    \/ \E w \in Workers : ReceiveCommit(w)
    \/ \E w \in Workers : ReceiveError(w)
    \/ \E w \in Workers : AttemptRecipients(w)
    \/ \E w \in Workers : Outcome(w)
    \/ \E w \in Workers : RecoverCtx(w)

SpecDuplicates == Init /\ [][NextDuplicates]_vars

\* ---------------------------------------------------------------------
\* One job with one recipient whose attempts the SMTP server answers with
\* a reply code: transient (4xx) and permanent (5xx) ones, those of
\* permanentCodes and others
\* ---------------------------------------------------------------------
SmtpReplies == {421, 450, 500, 535, 550, 554, 599}

\* the reply code as the error text of the Mailer carries it
ReplyText == (421 :> "421") @@ (450 :> "450") @@ (500 :> "500") @@ (535 :> "535")
             @@ (550 :> "550") @@ (554 :> "554") @@ (599 :> "599")

\* the error of an attempt whose send to the recipient got the reply code
ReplyError(recipient, code) ==
    Join(<< <<"send to", recipient, ReplyText[code]>> >>, "; ")

\* processJob up to the outcome: the Mailer accepts the mail or fails with a
\* reply code of the server
AttemptReply(w) ==
    /\ pc[w] = "process"
    /\ \/ result' = [result EXCEPT ![w] = [kind |-> "ok", err |-> <<>>]]
       \/ \E code \in SmtpReplies :
            result' = [result EXCEPT ![w] =
                [kind |-> "err", err |-> ReplyError("a@x.com", code)]]
    /\ pc' = [pc EXCEPT ![w] = "outcome"]
    /\ UNCHANGED <<now, emails, running, cancelled, row, stale, txNow, claims, life,
                   aside>>

NextReplies ==
    \/ TickTo(LongTime)
    \/ EnqueueOne
    \/ Start(WorkerCount)
    \/ \E w \in Workers : ReceiveNone(w)
    \/ \E w \in Workers : ReceiveSelect(w)
    \/ \E w \in Workers : ReceiveCommit(w)
    \/ \E w \in Workers : ReceiveError(w)
    \/ \E w \in Workers : AttemptReply(w)
    \/ \E w \in Workers : Outcome(w)
    \/ \E w \in Workers : RecoverCtx(w)

SpecReplies == Init /\ [][NextReplies]_vars

\* ---------------------------------------------------------------------
\* Engines built with every maxRetries up to MaxRetriesIn, and one job
\* whose producer left MaxAttempts unset
\* ---------------------------------------------------------------------
MaxRetriesIn == 5

\* NewEngine(emailsModel, nil, r, smtp, cfg): cfg is kept in Engine.config
InitRetries ==
    /\ InitEngine
    /\ call = NoCall
    /\ rl = NewLimiter
    /\ events = NoRecorder
    /\ InitHistory
    /\ config \in [MaxRetries : 1..MaxRetriesIn]
    /\ renderer = NewRenderer(FALSE)

EnqueueUnset ==
    /\ emails[1].status = "absent"
    /\ Enqueue(PriorityNormal, 0, Null)

NextRetries ==
    \/ TickTo(LongTime)
    \/ EnqueueUnset
    \/ Start(WorkerCount)
    \/ \E w \in Workers : ReceiveNone(w)
    \/ \E w \in Workers : ReceiveSelect(w)
    \/ \E w \in Workers : ReceiveCommit(w)
    \/ \E w \in Workers : ReceiveError(w)
    \/ \E w \in Workers : AttemptRecipients(w)
    \/ \E w \in Workers : Outcome(w)
    \/ \E w \in Workers : RecoverCtx(w)

SpecRetries == InitRetries /\ [][NextRetries]_vars

\* ---------------------------------------------------------------------
\* Two jobs with one recipient each, one of them an address with the digits
\* 550 in it, and every outcome of the Mailer
\* ---------------------------------------------------------------------
\* ParseRecipients(email.Recipients) of the two jobs
RecipientsOf(j) == IF j = 1 THEN <<"a@x.com">> ELSE <<"u550@x.com">>

EnqueueMany == Enqueue(PriorityNormal, ManyAttempts, Null)

\* processJob up to the outcome: the Mailer is called for the recipient of
\* the claimed job
AttemptAddress(w) ==
    /\ pc[w] = "process"
    /\ \E outcome \in MailerOutcomes :
        LET r == processAttempt("ok", RecipientsOf(row[w].id), <<outcome>>)
        IN  result' = [result EXCEPT ![w] =
                [kind |-> IF r.err = <<>> THEN "ok" ELSE "err", err |-> r.err]]
    /\ pc' = [pc EXCEPT ![w] = "outcome"]
    /\ UNCHANGED <<now, emails, running, cancelled, row, stale, txNow, claims, life,
                   aside>>

NextAddress ==
    \/ Tick
    \/ EnqueueMany
    \/ Start(1)
    \/ \E w \in Workers : ReceiveNone(w)
    \/ \E w \in Workers : ReceiveSelect(w)
    \/ \E w \in Workers : ReceiveCommit(w)
    \/ \E w \in Workers : ReceiveError(w)
    \/ \E w \in Workers : AttemptAddress(w)
    \/ \E w \in Workers : Outcome(w)
    \/ \E w \in Workers : RecoverCtx(w)

SpecAddress == Init /\ [][NextAddress]_vars

\* ---------------------------------------------------------------------
\* Jobs as Enqueue stores them: the recipients column is the JSON text of
\* the producer's list, which processJob parses.  One job has two
\* recipients, the other none.
\* ---------------------------------------------------------------------
\* json.Marshal(recipients): the text, fragment by fragment
Marshal(list) ==
    IF list = <<>> THEN <<"null">>
    ELSE <<"[">> \o Join([i \in 1..Len(list) |-> <<list[i]>>], ",") \o <<"]">>

\* ParseRecipients(raw): the elements of the JSON array; the error of
\* json.Unmarshal is dropped and anything else gives no recipients
ParseRecipients(raw) ==
    IF Len(raw) < 2 \/ raw[1] # "[" \/ raw[Len(raw)] # "]" THEN <<>>
    ELSE [i \in 1..((Len(raw) - 1) \div 2) |-> raw[2 * i]]

\* the recipients the producer passed to Enqueue for each job
ProducerRecipients(j) == IF j = 1 THEN JobRecipients ELSE <<>>

\* the recipients column of the job's row
RecipientsColumn(j) == Marshal(ProducerRecipients(j))

\* processJob up to the outcome; what renderer and Mailer returned is kept
\* with the result
AttemptParsed(w) ==
    /\ pc[w] = "process"
    /\ \E render \in {"ok"} \cup RenderErrors,
          outcome \in [1..Len(JobRecipients) -> MailerOutcomes] :
        LET recipients == ParseRecipients(RecipientsColumn(row[w].id))
            r == processAttempt(render, recipients, outcome)
        IN  result' = [result EXCEPT ![w] =
                [kind |-> IF r.err = <<>> THEN "ok" ELSE "err", err |-> r.err,
                 render |-> render, calls |-> r.calls,
                 outcome |-> [i \in 1..Len(r.calls) |-> outcome[i]]]]
    /\ pc' = [pc EXCEPT ![w] = "outcome"]
    /\ UNCHANGED <<now, emails, running, cancelled, row, stale, txNow, claims, life,
                   aside>>

NextSent ==
    \/ TickTo(LongTime)
    \/ EnqueueMany
    \/ Start(WorkerCount)
    \/ \E w \in Workers : ReceiveNone(w)
    \/ \E w \in Workers : ReceiveSelect(w)
    \/ \E w \in Workers : ReceiveCommit(w)
    \/ \E w \in Workers : ReceiveError(w)
    \/ \E w \in Workers : AttemptParsed(w)
    \/ \E w \in Workers : Outcome(w)
    \/ \E w \in Workers : RecoverCtx(w)

SpecSent == Init /\ [][NextSent]_vars

\* ---------------------------------------------------------------------
\* The shutdown of the server: events handed to the recorder wait in the
\* buffer of the bulk inserter until a flush writes them; a shutdown runs
\* the cleanup steps that were registered
\* ---------------------------------------------------------------------
\* the events handed to the recorder in one run
MaxEvents == 4

\* server.New: the shutdown listeners in the order of their registration
Listeners == <<"database.Close", "StopASTCacheCleanup", "Events.Flush">>

\* ServiceContext.Close: its statements in their order
CloseSteps == <<"Events.Flush", "database.Close">>

\* the sequence without its i-th element
Without(seq, i) == [k \in 1..(Len(seq) - 1) |-> IF k < i THEN seq[k] ELSE seq[k + 1]]

\* inserter.Flush(): the buffered rows are inserted; on a closed database
\* the insert fails, the result handler logs the error and the rows are gone
FlushBuffer(sd) ==
    IF sd.db = "open"
    THEN [sd EXCEPT !.written = @ + sd.buffered, !.buffered = 0]
    ELSE [sd EXCEPT !.lost = @ + sd.buffered, !.buffered = 0]

\* RecordEvent before the shutdown: the row goes to the buffer
RecordBuffered ==
    /\ ~shutdown.began
    /\ shutdown.buffered + shutdown.written + shutdown.lost < MaxEvents
    /\ shutdown' = [shutdown EXCEPT !.buffered = @ + 1]
    /\ UNCHANGED <<now, emails, running, cancelled, pc, row, stale, txNow, result,
                   claims, life, call, rl, events, idle, orphans, delivered, config, renderer>>

\* the bulk inserter flushes by itself when its size or time threshold is reached
PeriodicFlush ==
    /\ shutdown.buffered > 0
    /\ shutdown' = FlushBuffer(shutdown)
    /\ UNCHANGED <<now, emails, running, cancelled, pc, row, stale, txNow, result,
                   claims, life, call, rl, events, idle, orphans, delivered, config, renderer>>

\* the process is told to stop: the shutdown listeners of server.New are
\* notified, each in a goroutine of its own
NotifyListeners ==
    /\ ~shutdown.began
    /\ shutdown' = [shutdown EXCEPT !.began = TRUE, !.todo = Listeners,
                                    !.ordered = FALSE]
    /\ UNCHANGED <<now, emails, running, cancelled, pc, row, stale, txNow, result,
                   claims, life, call, rl, events, idle, orphans, delivered, config, renderer>>

\* the process is told to stop: ServiceContext.Close is called
ServiceContextClose ==
    /\ ~shutdown.began
    /\ shutdown' = [shutdown EXCEPT !.began = TRUE, !.todo = CloseSteps,
                                    !.ordered = TRUE]
    /\ UNCHANGED <<now, emails, running, cancelled, pc, row, stale, txNow, result,
                   claims, life, call, rl, events, idle, orphans, delivered, config, renderer>>

\* one cleanup step runs: the next statement of Close, or any listener
\* that has not run yet
RunCleanup(i) ==
    /\ i \in 1..Len(shutdown.todo)
    /\ shutdown.ordered => i = 1
    /\ LET step == shutdown.todo[i]
           rest == [shutdown EXCEPT !.todo = Without(shutdown.todo, i)]
       IN  shutdown' = IF step = "Events.Flush" THEN FlushBuffer(rest)
                       ELSE IF step = "database.Close" THEN [rest EXCEPT !.db = "closed"]
                       ELSE rest
    /\ UNCHANGED <<now, emails, running, cancelled, pc, row, stale, txNow, result,
                   claims, life, call, rl, events, idle, orphans, delivered, config, renderer>>

NextShutdown ==
    \/ RecordBuffered
    \/ PeriodicFlush
    \/ NotifyListeners
    \/ ServiceContextClose
    \/ \E i \in 1..Len(Listeners) : RunCleanup(i)

SpecShutdown == Init /\ [][NextShutdown]_vars

\* ---------------------------------------------------------------------
\* The Renderer, called with two template names, an old and a new content
\* and the data a job can carry, with the cache enabled or not
\* ---------------------------------------------------------------------
\* template sources: two that parse and one that does not
Contents == {"v1", "v2", "{{"}

\* the data of a job as ParseData gives them: nil, or a map decoded from JSON
NilData == [kind |-> "nil", name |-> ""]
DataIn == {NilData, [kind |-> "map", name |-> "Ann"], [kind |-> "map", name |-> "Bob"]}

\* json.Marshal(data), fragment by fragment
MarshalData(data) ==
    IF data.kind = "nil" THEN <<"null">>
    ELSE <<"{", "name", ":", data.name, "}">>

\* the first 16 hex digits of sha256(name + dataBytes): a value that stands
\* for the digest of these bytes
Hash16(name, dataBytes) == <<"sha256">> \o <<name>> \o dataBytes

\* createCacheKey that leaves the data out of the key
createCacheKeyNameOnly(name, data) == <<name>>

\* createCacheKey: fmt.Sprintf("%s_%s", name, hash[:16])
createCacheKey(name, data) == <<name, "_">> \o Hash16(name, MarshalData(data))

\* tmpl.Execute(data) and renderMJML: the HTML of a content for the data
Html(content, data) == <<"html", content, data>>

\* delete(r.cache, key)
DeleteKey(cache, key) == [k \in DOMAIN cache \ {key} |-> cache[k]]

\* r.cache[key] = html
PutKey(cache, key, html) ==
    [k \in DOMAIN cache \cup {key} |-> IF k = key THEN html ELSE cache[k]]

\* GetCacheSize()
GetCacheSize ==
    IF ~renderer.enableCache THEN 0 ELSE Cardinality(DOMAIN renderer.cache)

RendererCalls == <<now, emails, running, cancelled, pc, row, stale, txNow, result,
                   claims, life, rl, events, idle, orphans, delivered, config, shutdown>>

\* LoadTemplate(name, content)
LoadTemplate(name, content) ==
    /\ IF content = "{{"
       THEN /\ renderer' = renderer
            /\ call' = [fn |-> "LoadTemplate", name |-> name, data |-> NilData,
                        html |-> <<>>, err |-> <<"failed to parse template", name>>]
       ELSE /\ renderer' =
                    [renderer EXCEPT
                        !.templates[name] = content,
                        !.cache = IF renderer.enableCache THEN DeleteKey(@, <<name>>)
                                  ELSE @]
            /\ call' = [fn |-> "LoadTemplate", name |-> name, data |-> NilData,
                        html |-> <<>>, err |-> <<>>]
    /\ UNCHANGED RendererCalls

\* RenderTemplate(name, data)
RenderTemplate(name, data) ==
    /\ LET tmpl == renderer.templates[name]
           cacheKey == createCacheKey(name, data)
           found == renderer.enableCache /\ cacheKey \in DOMAIN renderer.cache
           html == IF found THEN renderer.cache[cacheKey] ELSE Html(tmpl, data)
       IN  IF tmpl = NoTemplate
           THEN /\ renderer' = renderer
                /\ call' = [fn |-> "RenderTemplate", name |-> name, data |-> data,
                            html |-> <<>>, err |-> <<"template", name, "not found">>]
           ELSE /\ renderer' =
                        [renderer EXCEPT
                            !.cache = IF renderer.enableCache /\ ~found
                                      THEN PutKey(@, cacheKey, html) ELSE @,
                            !.rendered = @ \cup {<<name, data>>}]
                /\ call' = [fn |-> "RenderTemplate", name |-> name, data |-> data,
                            html |-> html, err |-> <<>>]
    /\ UNCHANGED RendererCalls

\* ClearCache()
ClearCache ==
    /\ renderer' = [renderer EXCEPT
                        !.cache = IF renderer.enableCache THEN EmptyCache ELSE @,
                        !.rendered = {}]
    /\ call' = [fn |-> "ClearCache", name |-> NoTemplate, data |-> NilData,
                html |-> <<>>, err |-> <<>>]
    /\ UNCHANGED RendererCalls

InitRenderer ==
    /\ InitEngine
    /\ call = NoCall
    /\ rl = NewLimiter
    /\ events = NoRecorder
    /\ InitHistory
    /\ config = DefaultConfig
    /\ renderer \in {NewRenderer(enabled) : enabled \in BOOLEAN}

NextRenderer ==
    \/ \E name \in TemplateNames, content \in Contents : LoadTemplate(name, content)
    \/ \E name \in TemplateNames, data \in DataIn : RenderTemplate(name, data)
    \/ ClearCache

SpecRenderer == InitRenderer /\ [][NextRenderer]_vars

\* ---------------------------------------------------------------------
\* Steps the properties speak about
\* ---------------------------------------------------------------------
\* worker w's Receive returns a job in this step
Claims(w) == pc[w] = "tx" /\ pc'[w] = "process"
\* worker w's SELECT reads a row in this step
Selects(w) == pc[w] = "loop" /\ pc'[w] = "tx"
\* worker w's processJob returns in this step
Returns(w) == pc[w] = "deferred" /\ pc'[w] = "loop"
\* a goroutine is spawned in this step
Spawns == \E w \in Workers : pc[w] \in {"idle", "exited"} /\ pc'[w] = "loop"
\* pending or retry
Waiting(j) == emails[j].status \in {"pending", "retry"}
\* the scheduled_at of j allows a claim at time t
Due(j, t) == emails[j].scheduledAt = Null \/ emails[j].scheduledAt <= t

\* C1: mutual exclusion of the claim.  Between the moment a job becomes
\* pending or retry and the recording of its outcome at most one Receive
\* returns it, and no two workers process the same job before its outcome
\* is recorded, in every interleaving of the SELECTs and UPDATEs.
MutualExclusion ==
    /\ \A j \in JobIds : claims[j] <= 1
    /\ \A v, w \in Workers :
        (v # w /\ pc[v] \in {"process", "outcome"} /\ pc[w] \in {"process", "outcome"})
            => row[v].id # row[w].id

\* two workers read the same row, one has claimed it, the other is about to fail
W_MutualExclusion ==
    \E v, w \in Workers :
        /\ v # w
        /\ pc[v] = "process"
        /\ pc[w] = "tx"
        /\ row[v].id = row[w].id
        /\ stale[w]

\* C2: a successful attempt (render and every send succeed, no panic)
\* leaves the job sent with its attempts unchanged when processJob returns.
SuccessIsRecorded ==
    [][\A w \in Workers :
        (Returns(w) /\ result[w].kind = "ok")
            => /\ emails'[row[w].id].status = "sent"
               /\ emails'[row[w].id].attempts = row[w].attempts]_vars

\* C3: a non-permanent failure with attempts+1 < maxAttempts leaves the job
\* in retry, attempts grown by exactly 1 and scheduledAt set to the time of
\* the failure plus backoff(attempts+1), when processJob returns.
RetryTransition ==
    [][\A w \in Workers :
        (/\ Returns(w)
         /\ result[w].kind = "err"
         /\ ~(\E i \in 1..Len(result[w].err) : result[w].err[i] \in permanentCodes)
         /\ row[w].attempts + 1 < row[w].maxAttempts)
            => /\ emails'[row[w].id].status = "retry"
               /\ emails'[row[w].id].attempts = row[w].attempts + 1
               /\ emails'[row[w].id].scheduledAt # Null
               /\ emails'[row[w].id].scheduledAt <= now + calculateBackoff(row[w].attempts + 1)]_vars

\* C4: Receive never returns a job whose status is sent or failed: the row
\* a claim returns is pending or retry in the store when the claim commits,
\* whatever its priority, createdAt and scheduledAt.
TerminalNeverReclaimed ==
    [][\A w \in Workers :
        /\ Claims(w) => emails[row[w].id].status \in {"pending", "retry"}
        /\ Selects(w) => emails[row'[w].id].status \notin {"sent", "failed"}]_vars

\* a job is claimed while a terminal job of a higher priority is in the store
W_TerminalNeverReclaimed ==
    \E w \in Workers, j \in JobIds :
        /\ pc[w] = "process"
        /\ row[w].id # j
        /\ emails[j].status \in {"sent", "failed"}
        /\ emails[j].priority > emails[row[w].id].priority
        /\ Due(j, now)

\* C5: a failed attempt that brings attempts to maxAttempts leaves the job
\* failed when processJob returns.
AttemptExhaustion ==
    [][\A w \in Workers :
        (/\ Returns(w)
         /\ result[w].kind = "err"
         /\ row[w].attempts + 1 >= row[w].maxAttempts)
            => emails'[row[w].id].status = "failed"]_vars

\* C6: an attempt whose error text contains one of 550..554 leaves the job
\* failed when processJob returns, whatever maxAttempts is.
PermanentClassification ==
    [][\A w \in Workers :
        (/\ Returns(w)
         /\ result[w].kind = "err"
         /\ \E i \in 1..Len(result[w].err) : result[w].err[i] \in permanentCodes)
            => emails'[row[w].id].status = "failed"]_vars

\* C7: a panic during processing is recovered, the job becomes failed and the
\* worker goes back to its loop; the recovery handler marks a job failed only
\* when a panic occurred.
PanicRecovery ==
    [][\A w \in Workers :
        Returns(w) =>
            /\ result[w].kind = "panic" => emails'[row[w].id].status = "failed"
            /\ result[w].kind # "panic" => emails' = emails]_vars

\* C8: the scheduling gate.  A row whose scheduledAt is later than the
\* current time is neither read by the SELECT of Receive nor returned by it,
\* pending or retry alike; and a pending or retry row whose scheduledAt has
\* been reached is what the SELECT returns when no other row is waiting.
SchedulingGate ==
    /\ [][\A w \in Workers :
            /\ Selects(w) => (emails[row'[w].id].scheduledAt = Null
                              \/ emails[row'[w].id].scheduledAt <= now)
            /\ Claims(w) => (emails[row[w].id].scheduledAt = Null
                             \/ emails[row[w].id].scheduledAt <= now)]_vars
    /\ [](\A j \in JobIds :
            (/\ emails[j].status \in {"pending", "retry"}
             /\ emails[j].scheduledAt # Null
             /\ emails[j].scheduledAt <= now
             /\ \A k \in JobIds : k # j => emails[k].status \notin {"pending", "retry"})
                => SelectNext(now) = {j})

\* a scheduled job is claimed in the very tick its scheduledAt is reached
W_SchedulingGate ==
    \E w \in Workers :
        /\ pc[w] = "process"
        /\ emails[row[w].id].scheduledAt = now
        /\ now > 0

\* C9: priority ordering.  When Receive returns a job, no other row that was
\* pending or retry and due at the time of the transaction's SELECT has a
\* strictly higher priority.
PriorityOrdering ==
    [][\A w \in Workers :
        Claims(w) =>
            \A k \in JobIds :
                (/\ emails[k].status \in {"pending", "retry"}
                 /\ (emails[k].scheduledAt = Null \/ emails[k].scheduledAt <= txNow[w]))
                    => emails[k].priority <= emails[row[w].id].priority]_vars

\* a job is claimed while a due pending job of a lower priority waits
W_PriorityOrdering ==
    \E w \in Workers, k \in JobIds :
        /\ pc[w] = "process"
        /\ emails[k].status = "pending"
        /\ Due(k, now)
        /\ emails[k].priority < emails[row[w].id].priority
        /\ emails[k].createdAt < emails[row[w].id].createdAt

\* C10: FIFO tie-break.  The row the SELECT of Receive reads is never one
\* that was enqueued after another due, waiting row of the same priority
\* (job ids are given out in the order of the Enqueue calls).
FifoTieBreak ==
    [][\A w \in Workers :
        Selects(w) =>
            \A k \in JobIds :
                (/\ k < row'[w].id
                 /\ emails[k].status \in {"pending", "retry"}
                 /\ (emails[k].scheduledAt = Null \/ emails[k].scheduledAt <= now)
                 /\ emails[k].priority = emails[row'[w].id].priority)
                    => FALSE]_vars

\* C11: every job whose status is pending, processing or retry has
\* attempts <= maxAttempts.
AttemptsWithinMax ==
    \A j \in JobIds :
        emails[j].status \in {"pending", "processing", "retry"}
            => emails[j].attempts <= emails[j].maxAttempts

\* C12: calculateBackoff(attempt) = min(RetryBackoff * 2^(attempt-1),
\* MaxBackoff) for every attempt >= 1: it never exceeds MaxBackoff and is
\* not below what the attempt before gets, also for attempts so large that
\* RetryBackoff * 2^(attempt-1) does not fit in a 64-bit duration.
BackoffFormula ==
    (call.fn = "calculateBackoff" /\ call.done) =>
        /\ call.ret = Duration(BackoffBound(call.attempts))
        /\ ~Greater64(call.ret, Duration(MaxBackoff))
        /\ call.attempts > 1 =>
                \A pow \in PowToDuration(call.attempts - 2) :
                    ~Greater64(calculateBackoff64(pow), call.ret)

\* where the product fits in 64 bits the engine's result is the backoff the
\* queue model counts in ticks
BackoffAgrees ==
    (call.fn = "calculateBackoff" /\ call.done /\ call.attempts <= 25) =>
        call.ret = Duration(calculateBackoff(call.attempts))

AllRecipientsAttempted ==
    (call.fn = "processJob" /\ call.done /\ call.render = "ok") =>
        /\ call.calls = call.recipients
        /\ NamedRecipients(call.err) = FailedRecipients(call.recipients, call.outcome)
        /\ call.err = <<>> <=>
               \A i \in 1..Len(call.recipients) : call.outcome[i] = "ok"

\* the Mailer failed for the first of three recipients and for the last
W_AllRecipientsAttempted ==
    /\ call.fn = "processJob" /\ call.done /\ call.render = "ok"
    /\ Len(call.recipients) = 3
    /\ call.outcome[1] # "ok" /\ call.outcome[2] = "ok" /\ call.outcome[3] # "ok"
    /\ Len(call.calls) = 3

\* C15: a call of Start made while the engine is running spawns no worker,
\* also when two calls of Start race; so, until Stop is called, the number
\* of live workers never exceeds the workerCount of the first Start.
StartIdempotent ==
    /\ [][Spawns => ~running]_vars
    /\ [](~cancelled => Cardinality(LiveWorkers) <= firstWorkers)

\* the engine is running, every worker of the first Start is busy with a
\* job and no goroutine slot is short for a second Start
W_StartIdempotent ==
    /\ running
    /\ Cardinality(LiveWorkers) = firstWorkers
    /\ Cardinality(FreeSlots) >= 1
    /\ \A w \in LiveWorkers : pc[w] \in {"process", "outcome", "deferred"}

\* C15 as it was stated: a call of Start made while the engine is running
\* spawns no worker, so the number of live workers never exceeds the
\* workerCount of the first Start.
StartNeverExceeds ==
    /\ [][Spawns => ~running]_vars
    /\ [](Cardinality(LiveWorkers) <= firstWorkers)

\* C16: Stop on a running engine returns only after every worker has left
\* its loop; once a Stop has returned no worker claims a job, renders, sends
\* or writes to the store; and, every render and send in flight returning,
\* Stop does return.
StopWaitsForPool ==
    /\ [][(StopWaiting /\ stop' = "returned") => LiveWorkers = {}]_vars
    /\ [](StopReturned =>
            /\ cancelled
            /\ \A w \in Workers : pc[w] \in {"idle", "loop", "exited"})
    /\ StopWaiting ~> (stop = "returned")

\* Stop has returned after it was called while a worker had a job in hand
W_StopWaitsForPool ==
    /\ stop = "returned"
    /\ \E j \in JobIds : emails[j].status = "processing"

\* C17: when the cancellation signal fires while a worker waits for the rate
\* limiter, the job is in retry (or failed, its attempts exhausted) with
\* attempts grown by one when processJob returns; it is not left processing.
CancelledWaitIsRetried ==
    [][\A w \in Workers :
        (Returns(w) /\ result[w].kind = "err" /\ result[w].err = CanceledText)
            => /\ emails'[row[w].id].status \in {"retry", "failed"}
               /\ emails'[row[w].id].attempts = row[w].attempts + 1]_vars

\* C18: when Stop is called after a job has passed the rate limiter, the
\* render and the sends still run and the outcome is persisted: the job is
\* sent, retry or failed when processJob returns, so once Stop has returned
\* no job is left in processing.
InFlightOutcomePersisted ==
    /\ [][\A w \in Workers :
            (Returns(w) /\ cancelled /\ result[w].kind # "panic"
                        /\ result[w].err # CanceledText)
                => emails'[row[w].id].status \in {"sent", "retry", "failed"}]_vars
    /\ [](StopReturned => \A j \in JobIds : emails[j].status # "processing")

\* C19: the limiter is one token bucket with burst 1 shared by all workers
\* and by SendNow: two consecutive permits are at least one interval
\* (60/rateLimitPerMinute seconds) apart, and when n permits have been used
\* the last send is at least n-1 intervals after the first permit.
RateLimited ==
    /\ \A i \in 1..(Len(rl.permits) - 1) :
            rl.permits[i + 1] - rl.permits[i] >= LimiterInterval
    /\ Len(rl.sends) = LimiterJobs =>
            rl.sends[LimiterJobs] - rl.permits[1] >= (LimiterJobs - 1) * LimiterInterval

\* every job is sent, the last of them as early as the limiter allows, one
\* of the sends being a SendNow
W_RateLimited ==
    /\ Len(rl.sends) = LimiterJobs
    /\ rl.sends[LimiterJobs] - rl.permits[1] = (LimiterJobs - 1) * LimiterInterval
    /\ rl.direct = 1

\* C19 as it was stated: two consecutive permits are at least one interval
\* apart, and with the workers of the server alone and n ready jobs the
\* time from the first send to the last is at least n-1 intervals.
SendsSpanIntervals ==
    /\ \A i \in 1..(Len(rl.permits) - 1) :
            rl.permits[i + 1] - rl.permits[i] >= LimiterInterval
    /\ (rl.direct = 0 /\ Len(rl.sends) = LimiterJobs) =>
            rl.sends[LimiterJobs] - rl.sends[1] >= (LimiterJobs - 1) * LimiterInterval

\* C20: after a successful render SendNow calls the Mailer for every
\* recipient, also after a call that failed, and returns one error that
\* covers all failed recipients.
SendNowAggregates ==
    (call.fn = "SendNow" /\ call.done /\ call.wait = "ok" /\ call.render = "ok") =>
        /\ call.calls = call.recipients
        /\ NamedRecipients(call.err) = FailedRecipients(call.recipients, call.outcome)

\* the last record handed to the recorder
LastEvent(log) == log[Len(log)]

\* C24: for every transition of a job into sent, retry or failed that the
\* engine makes, the failed transition of the panic recovery included,
\* exactly one event with the job's id and the eventType of the new status
\* is handed to the EventRecorder.
EveryTransitionAudited ==
    [][\A j \in JobIds :
        (/\ events.set
         /\ emails'[j].status \in {"sent", "retry", "failed"}
         /\ emails'[j].status # emails[j].status)
            => /\ Len(events'.log) = Len(events.log) + 1
               /\ LastEvent(events'.log).emailID = j
               /\ LastEvent(events'.log).eventType = emails'[j].status]_vars

\* C25: the row a job ends an attempt with (status, attempts, scheduledAt)
\* is what the statement of the outcome made of it, and the worker goes on
\* to its deferred return and its loop, whether the recorder stores the
\* event, fails to store it, or does not exist; recording takes one call
\* that returns nothing.
EventsBestEffort ==
    [][\A w \in Workers :
        /\ (pc[w] = "outcome" /\ pc'[w] # "outcome")
                => /\ emails' = Marked(w)
                   /\ pc'[w] = "deferred"
                   /\ Len(events'.log) <= Len(events.log) + 1
                   /\ ~events.set => events' = events
        /\ Returns(w) => (pc'[w] = "loop" /\ events' = events)]_vars

\* the recorder failed to store the event of a retry, and the job is in
\* retry with its attempt counted all the same
W_EventsBestEffort ==
    \E i \in 1..Len(events.log) :
        /\ ~events.log[i].stored
        /\ events.log[i].eventType = "retry"
        /\ emails[events.log[i].emailID].status = "retry"
        /\ emails[events.log[i].emailID].attempts = 1
        /\ \E w \in Workers : pc[w] = "deferred" /\ row[w].id = events.log[i].emailID

\* C21: a call of SendNow, successful or not, leaves the jobs table and
\* the events as they are; it takes one permit of the rate limiter before
\* it renders, and none after; and a failure of the wait, the render or a
\* send is returned to the caller.
SendNowBypasses ==
    /\ [][call' # call =>
            /\ emails' = emails
            /\ events' = events
            /\ Len(rl'.permits) = Len(rl.permits) + (IF call'.done THEN 0 ELSE 1)
            /\ (call'.done /\ call'.wait = "ok") => (call.permits = 1 /\ ~call.done)]_vars
    /\ [](call.fn = "SendNow" /\ call.done =>
            /\ call.wait # "ok" => (call.err = <<call.wait>> /\ call.calls = <<>>)
            /\ (call.wait = "ok" /\ call.render # "ok")
                    => (Contains(call.err, call.render) /\ call.calls = <<>>)
            /\ (call.wait = "ok" /\ call.render = "ok")
                    => /\ call.err = <<>> <=> \A i \in 1..2 : call.outcome[i] = "ok"
                       /\ call.err # <<>> =>
                            \E i \in 1..2 : /\ call.outcome[i] # "ok"
                                            /\ Contains(call.err, call.outcome[i])
                                            /\ Contains(call.err, call.recipients[i]))

\* SendNow has returned a send failure, after it had waited for its permit,
\* while a worker had a job of the queue in hand
W_SendNowBypasses ==
    /\ call.fn = "SendNow" /\ call.done /\ call.permits = 1
    /\ call.err # <<>> /\ call.calls # <<>>
    /\ Len(rl.permits) = 2
    /\ emails[1].status = "processing"
    /\ events.set

\* a call of Enqueue or Schedule returns in this step
EnqueueReturns == call' # call /\ call'.fn \in {"Enqueue", "Schedule"}

\* C22: a successful Enqueue persists exactly one new job: pending,
\* attempts 0, under the caller's id or, if that is empty, under a fresh id;
\* maxAttempts 3 if the caller left it 0, priority normal if the caller left
\* it unset; and it returns the id.  Schedule(job, at) does the same with
\* scheduledAt = at.
EnqueueDefaultsHold ==
    [][(EnqueueReturns /\ call'.err = <<>>) =>
        LET c == call'
            id == call'.ret
        IN  /\ id \in JobIds
            /\ c.id # NoId => id = c.id
            /\ emails[id].status = "absent"
            /\ \A j \in JobIds : j # id => emails'[j] = emails[j]
            /\ emails'[id].status = "pending"
            /\ emails'[id].attempts = 0
            /\ emails'[id].maxAttempts = (IF c.maxAttempts = 0 THEN 3 ELSE c.maxAttempts)
            /\ emails'[id].priority = (IF c.priority = 0 THEN PriorityNormal ELSE c.priority)
            /\ emails'[id].scheduledAt = (IF c.fn = "Schedule" THEN c.at ELSE c.scheduledAt)
            /\ emails'[id].createdAt = now]_vars

\* Schedule has stored a job for which the caller left the id, the
\* priority and maxAttempts unset, next to a job that exists already
W_EnqueueDefaultsHold ==
    /\ call.fn = "Schedule" /\ call.done /\ call.err = <<>>
    /\ call.id = NoId /\ call.priority = 0 /\ call.maxAttempts = 0
    /\ call.ret = 2
    /\ emails[2].status = "pending" /\ emails[2].scheduledAt = 1
    /\ emails[1].status \in {"sent", "failed"}

\* C23: when Enqueue returns an error (a failure of the store, or an id
\* that is in the table already) no job is added and every row is as it
\* was, so the claim, GetStatus, List and Stats see what they saw before;
\* no id is returned.
EnqueueFailureNotQueued ==
    [][(EnqueueReturns /\ call'.err # <<>>) =>
        /\ emails' = emails
        /\ call'.ret = NoId
        /\ \A t \in 0..MaxTime :
              {j \in JobIds : Eligible(j, t)} = {j \in JobIds : Eligible(j, t)}']_vars

\* Enqueue was refused for the id of a job a worker has in hand; and it was
\* refused by the store for a new id
W_EnqueueFailureNotQueued ==
    /\ call.fn = "Enqueue" /\ call.done
    /\ Contains(call.err, DuplicateText)
    /\ call.id = 1 /\ emails[1].status = "processing"
    /\ emails[2].status = "absent"

\* the values the idle backoff takes, in milliseconds
IdleSteps == {100, 200, 400, 800, 1600, 3200, 5000}

\* worker w's call of Receive returns in this step
ReceiveReturns(w) == idle[w].phase = "claim" /\ idle'[w].phase # "claim"

\* C26: when Receive returns an error the worker processes no job, sleeps
\* for the current idle backoff and then stands at the top of its loop,
\* where it calls Receive again unless the context is done; no step of
\* this path changes the set of live workers or the store.
ClaimErrorKeepsWorker ==
    [][\A w \in IdleWorkers :
        /\ (ReceiveReturns(w) /\ idle'[w].got = "error")
                => /\ idle'[w].phase = "sleep"
                   /\ idle'[w].slept = idle[w].backoff
                   /\ LiveWorkers' = LiveWorkers
                   /\ emails' = emails
        /\ (idle[w].phase = "sleep" /\ idle'[w].phase # "sleep")
                => (idle'[w].phase = "top" /\ LiveWorkers' = LiveWorkers)
        /\ (idle[w].phase = "top" /\ idle'[w].phase # "top")
                => idle'[w].phase = (IF cancelled THEN "returned" ELSE "claim")]_vars

\* a worker calls Receive again after its sixth claim in a row, an error,
\* gave it no job, and both workers of the pool are live
W_ClaimErrorKeepsWorker ==
    \E w \in IdleWorkers :
        /\ idle[w].phase = "claim"
        /\ idle[w].got = "error"
        /\ idle[w].backoff = MaxIdle
        /\ Cardinality(LiveWorkers) = WorkerCount
        /\ ~cancelled

\* C27: the idle backoff of a worker starts at 100 ms, is doubled, up to
\* 5 s, after every claim that returns no job or an error, and is reset to
\* 100 ms by every claim that returns a job; it is always one of 100, 200,
\* 400, 800, 1600, 3200, 5000 ms, and the sleep is one of these too.
IdleBackoff ==
    /\ [](\A w \in IdleWorkers :
            idle[w].phase # "none" =>
                (idle[w].backoff \in IdleSteps /\ idle[w].slept \in IdleSteps \cup {0}))
    /\ [][\A w \in IdleWorkers :
            /\ (idle[w].phase \in {"none", "returned"} /\ idle'[w].phase = "top")
                    => idle'[w].backoff = 100
            /\ (ReceiveReturns(w) /\ idle'[w].got = "job") => idle'[w].backoff = 100
            /\ (ReceiveReturns(w) /\ idle'[w].got # "job")
                    => (idle'[w].phase = "sleep" /\ idle'[w].backoff = idle[w].backoff)
            /\ (idle[w].phase = "sleep" /\ idle'[w].phase # "sleep")
                    => idle'[w].backoff = (IF 2 * idle[w].backoff > 5000 THEN 5000
                                           ELSE 2 * idle[w].backoff)]_vars

\* a worker found a job after it had slept the longest sleep, while the
\* other is on its way up
W_IdleBackoff ==
    \E v, w \in IdleWorkers :
        /\ idle[w].phase = "process" /\ idle[w].slept = 5000 /\ idle[w].backoff = 100
        /\ idle[v].phase = "sleep" /\ idle[v].backoff = 3200

\* C28: Receive never returns, and its SELECT never reads, a row whose
\* status is processing; so a job that was processing when its worker was
\* lost in a crash is processing in every later state, whatever time
\* passes, and no worker ever has it in hand.
NoReclaim ==
    /\ [][\A w \in Workers :
            /\ Selects(w) => emails[row'[w].id].status # "processing"
            /\ Claims(w) => emails[row[w].id].status # "processing"]_vars
    /\ [](\A j \in orphans :
            /\ emails[j].status = "processing"
            /\ \A w \in Workers : row[w].id # j)

\* after a crash and a restart the clock has reached its horizon, a worker
\* has taken the next job, and the job of the crash is still processing
W_NoReclaim ==
    \E j \in orphans, w \in Workers :
        /\ now = MaxTime
        /\ emails[j].status = "processing"
        /\ emails[j].createdAt = 0
        /\ pc[w] = "process"
        /\ row[w].id # j
        /\ emails[row[w].id].createdAt > emails[j].createdAt

\* the attempts in which the Mailer accepted the mail for the i-th recipient
SentTo(i) == {k \in 1..Len(delivered) : delivered[k][i] = "ok"}

\* the attempts in which the Mailer failed for some recipient
Partial == {k \in 1..Len(delivered) :
                \E i \in 1..Len(JobRecipients) : delivered[k][i] # "ok"}

\* C29: in a run without a crash a recipient of a job gets a second
\* successful send for that job only after an attempt that delivered to it
\* and failed for another recipient (the retry sends to every recipient
\* again); after an attempt in which every send succeeded nobody is sent to
\* again, and within one attempt each recipient is sent to once.
DuplicatesOnlyAfterPartialFailure ==
    /\ \A k \in 1..Len(delivered) : k < Len(delivered) => k \in Partial
    /\ \A i \in 1..Len(JobRecipients) :
            Cardinality(SentTo(i)) <= 1 + Cardinality(SentTo(i) \cap Partial)

\* the first recipient got the mail twice: in an attempt that failed for
\* the second recipient, and in the retry, which delivered to both
W_DuplicatesOnlyAfterPartialFailure ==
    /\ Len(delivered) = 2
    /\ delivered[1] = [i \in 1..2 |-> IF i = 1 THEN "ok" ELSE "421"]
    /\ delivered[2] = [i \in 1..2 |-> "ok"]
    /\ emails[1].status = "sent"

\* C29 as it was stated: in a run without a crash each recipient of a job
\* is sent to successfully at most once.
NoDuplicateWithoutCrash ==
    \A i \in 1..Len(JobRecipients) : Cardinality(SentTo(i)) <= 1

\* the error carries an SMTP reply code in the range 500-599
CarriesPermanentReply(err) ==
    \E code \in SmtpReplies : code \in 500..599 /\ Contains(err, ReplyText[code])

\* C30: when the error of an attempt carries an SMTP reply code in the range
\* 500-599, the outcome of that attempt leaves the job failed, whatever
\* attempts it has left.
PermanentReplyStopsRetries ==
    [][\A w \in Workers :
          (/\ pc[w] = "outcome" /\ pc'[w] = "deferred"
           /\ result[w].kind = "err"
           /\ CarriesPermanentReply(result[w].err))
          => emails'[row[w].id].status = "failed"]_vars

\* C31: a job enqueued without its own maxAttempts is attempted at most
\* config.MaxRetries times (counted are the attempts that reached the
\* Mailer).
MaxRetriesBoundsAttempts == Len(delivered) <= config.MaxRetries

\* C32: the job Receive returns carries status processing, the status the
\* same claim persisted for it.
ReceivedAsProcessing ==
    [][\A w \in Workers :
          pc[w] = "tx" /\ pc'[w] = "process"
          => /\ emails'[row'[w].id].status = "processing"
             /\ row'[w].status = emails'[row'[w].id].status]_vars

\* C33: Enqueue persists the priority the caller supplied, PriorityLow
\* included, and of the job enqueued with PriorityLow and the job enqueued
\* later with PriorityNormal, both eligible, Receive returns the
\* PriorityNormal job first.
LowAfterNormal ==
    [][/\ (EnqueueReturns /\ call'.err = <<>>)
            => emails'[call'.ret].priority = call'.priority
       /\ \A w \in Workers :
            (Selects(w) /\ Waiting(1) /\ Waiting(2) /\ Due(1, now) /\ Due(2, now))
                => row'[w].id = 2]_vars

\* what the Mailer returned, in the error of an attempt with one recipient
MailerText(err) == err[Len(err)]

\* C34: a send failure whose Mailer error contains none of 550..554 leaves
\* the job in retry while attempts + 1 < maxAttempts, whatever the recipient
\* address is.
ClassifiedByMailerError ==
    [][\A w \in Workers :
          (/\ pc[w] = "outcome" /\ pc'[w] = "deferred"
           /\ result[w].kind = "err"
           /\ MailerText(result[w].err) \notin permanentCodes
           /\ row[w].attempts + 1 < row[w].maxAttempts)
          => emails'[row[w].id].status = "retry"]_vars

\* worker w's attempt rendered and the Mailer was called for every
\* recipient the producer gave job j, and returned success each time
FullySuccessful(w, j) ==
    /\ result[w].render = "ok"
    /\ result[w].calls = ProducerRecipients(j)
    /\ \A i \in 1..Len(result[w].calls) : result[w].outcome[i] = "ok"

\* C35: a job becomes sent only in the outcome step of a worker that
\* claimed it and whose attempt rendered and got success from the Mailer
\* for every recipient of the job.
SentOnlyAfterFullSuccess ==
    [][\A j \in JobIds :
          (emails[j].status # "sent" /\ emails'[j].status = "sent")
          => \E w \in Workers :
                /\ pc[w] = "outcome" /\ pc'[w] = "deferred"
                /\ row[w].id = j
                /\ FullySuccessful(w, j)]_vars

\* the job with two recipients is sent after a retry: the first attempt
\* failed for one recipient, the second delivered to both
W_SentOnlyAfterFullSuccess ==
    /\ emails[1].status = "sent"
    /\ emails[1].attempts = 1
    /\ \E w \in Workers :
        /\ pc[w] = "deferred" /\ row[w].id = 1
        /\ result[w].kind = "ok"
        /\ Len(result[w].calls) = 2

\* the positions of the events of job j in the log
EventsOf(j) == {i \in 1..Len(events.log) : events.log[i].emailID = j}

\* C36: among the events of a job only the last one can be of type sent or
\* failed: at most one terminal event is recorded for the job, its retry
\* events come before it, and no event of the job comes after it.
OneTerminalEvent ==
    \A j \in JobIds :
        \A i \in EventsOf(j), k \in EventsOf(j) :
            i < k => events.log[i].eventType = "retry"

\* a job with a retry event and then its sent event, the retry having been
\* claimed by a second worker
W_OneTerminalEvent ==
    \E j \in JobIds :
        /\ Cardinality(EventsOf(j)) = 2
        /\ \E i \in EventsOf(j), k \in EventsOf(j) :
            /\ i < k
            /\ events.log[i].eventType = "retry"
            /\ events.log[k].eventType = "sent"

\* C37: once a call of Stop has returned the context stays cancelled: a
\* later Start sets the running flag and spawns its workers, each of which
\* leaves its loop only by returning, without a SELECT or a claim, and no
\* job changes its status; and cancellation is raised only by a Stop that
\* finds the engine running.
NotRestartable ==
    [][/\ StopReturned =>
            /\ cancelled /\ cancelled'
            /\ Spawns => (running' /\ ~running
                          /\ Cardinality({w \in Workers : pc'[w] = "loop"})
                                >= WorkerCount)
            /\ \A w \in Workers :
                    /\ ~Selects(w) /\ ~Claims(w)
                    /\ (pc[w] = "loop" /\ pc'[w] # "loop") => pc'[w] = "exited"
            /\ \A j \in JobIds :
                    emails[j].status # "absent" => emails'[j] = emails[j]
       /\ (cancelled' /\ ~cancelled) => (running /\ ~running')]_vars

\* the engine was started again after Stop returned (Stop returns when no
\* worker is left): its workers stand at the head of their loop, and a job
\* that is due is waiting
W_NotRestartable ==
    /\ stop = "returned"
    /\ running
    /\ Cardinality({w \in Workers : pc[w] = "loop"}) = WorkerCount
    /\ \E j \in JobIds : Waiting(j) /\ Due(j, now)

\* C38: on shutdown the flush of the recorder runs while the database is
\* still open, in every order of the cleanup steps, so that no event handed
\* to RecordEvent before the shutdown began is lost.
FlushedBeforeClose ==
    /\ shutdown.lost = 0
    /\ shutdown.db = "closed" => shutdown.buffered = 0

\* C39: with the cache enabled, a successful RenderTemplate(name, data)
\* returns the rendering of the content the template has now, also when the
\* template was loaded again after an earlier render with the same data.
ReloadInvalidatesCache ==
    (/\ call.fn = "RenderTemplate" /\ call.err = <<>>)
        => call.html = Html(renderer.templates[call.name], call.data)

\* the keys of the pairs rendered since the last clear
RenderedKeys == {createCacheKey(p[1], p[2]) : p \in renderer.rendered}

\* C40: with the cache enabled the cache holds exactly one entry for each
\* (template name, data) pair rendered successfully since the last clear;
\* a render of a pair that was rendered before leaves GetCacheSize as it is
\* and returns the HTML returned before; with the cache disabled
\* GetCacheSize is 0 and nothing is cached.
CacheSizeIsPairsRendered ==
    /\ [](IF renderer.enableCache
           THEN /\ DOMAIN renderer.cache = RenderedKeys
                /\ GetCacheSize = Cardinality(renderer.rendered)
           ELSE /\ GetCacheSize = 0
                /\ DOMAIN renderer.cache = {})
    /\ [][(/\ renderer.enableCache
            /\ call'.fn = "RenderTemplate" /\ call'.err = <<>>
            /\ <<call'.name, call'.data>> \in renderer.rendered)
           => /\ GetCacheSize' = GetCacheSize
              /\ call'.html = renderer.cache[createCacheKey(call'.name, call'.data)]
              /\ renderer'.cache = renderer.cache]_<<renderer, call>>

\* three pairs were rendered, two of them of the same template, and the
\* cache holds three entries; the last render repeated one of them and got
\* its entry, which is not what the template would render now
W_CacheSizeIsPairsRendered ==
    /\ renderer.enableCache
    /\ GetCacheSize = 3
    /\ Cardinality({p[1] : p \in renderer.rendered}) = 2
    /\ call.fn = "RenderTemplate" /\ call.err = <<>>
    /\ call.html = renderer.cache[createCacheKey(call.name, call.data)]
    /\ call.html # Html(renderer.templates[call.name], call.data)

====
